---------------------------- MODULE Spec2Model ----------------------------
(***************************************************************************)
(* Branch-level access control of dolt: the rule store (Access), its       *)
(* three-pass matcher pipeline and the table editor (BranchControlTable)   *)
(* that inserts, updates and deletes rules.                                *)
(*                                                                         *)
(* Strings are sequences of one-character strings.  Slices of the Go code  *)
(* are sequences; a Go index i is the sequence position i + 1.             *)
(***************************************************************************)
EXTENDS Integers, Sequences, FiniteSets, TLC

VARIABLES Branches, Users, Hosts, Values, last,
          RWMutex, pc, pending, seen, committed,
          binlog, fb, dst, derr,
          statement, blob, parsed, updates,
          ltf, logCall

store == <<Branches, Users, Hosts, Values>>
\* The lock of the store and the threads that take it: where each thread
\* is, the operation the editor has in hand, what each reader has read
\* and the store as the last operation left it.
threads == <<RWMutex, pc, pending, seen, committed>>
\* The journal of the store, the serialized message at hand, the store
\* that Deserialize fills and the error Deserialize returned.
codec == <<binlog, fb, dst, derr>>
\* The blobstore that holds the manifest of a chunk store, what the last
\* call of ParseIfExists ended in, and the calls of Update of each writer.
nbs == <<blob, parsed, updates>>
\* The instance of the table function dolt_log, and what the last call
\* that built it or gave it its expressions ended in.
sqle == <<ltf, logCall>>
vars == <<Branches, Users, Hosts, Values, last, RWMutex, pc, pending, seen, committed,
          binlog, fb, dst, derr, statement, blob, parsed, updates, ltf, logCall>>

-----------------------------------------------------------------------------
(* Bounds of the model and the inputs the operations are called with.      *)

Permissions_Admin == 1
Permissions_Write == 2

\* The greatest number of rows an operation may leave in the store.
MaxRows == 2

\* The expressions rules are written with, as the user gives them.
RawTriples ==
    { <<<<"_">>, <<"a">>, <<"_">>>>,
      <<<<"%", "%">>, <<"b">>, <<"X">>>>,
      <<<<"M">>, <<"a">>, <<"%">>>> }

\* Concrete names a query is made with.
QueryBranches == {<<>>, <<"m">>, <<"d">>, <<"m", "d">>}
QueryUsers == {<<"a">>, <<"b">>, <<"r">>}
QueryHosts == {<<>>, <<"h">>, <<"x">>, <<"l">>}

\* The superuser identity the store is constructed with.
SuperUser == <<"r">>
SuperHost == <<"l">>

\* GetBranchAwareSession: no session, or the session of a connected user.
NoSession == [present |-> FALSE, user |-> <<>>, host |-> <<>>]
Alice == [present |-> TRUE, user |-> <<"a">>, host |-> <<"h">>]
Sessions == {NoSession, Alice}

\* sql.Row: the four columns of the table. The permissions column of the
\* row given to Delete, and of the old row given to Update, is never read:
\* those rows are drawn with one value for it.
NoRow == [branch |-> <<>>, user |-> <<>>, host |-> <<>>, permissions |-> 0]
Row(t, p) == [branch |-> t[1], user |-> t[2], host |-> t[3], permissions |-> p]
NewRows == {Row(t, p) : t \in RawTriples, p \in {Permissions_Admin, Permissions_Write}}
OldRows == {Row(t, Permissions_Write) : t \in RawTriples}

-----------------------------------------------------------------------------
(* Permissions: a flag set held in an unsigned integer.                    *)

RECURSIVE BitOr(_, _)
BitOr(a, b) ==
    IF a = 0 THEN b
    ELSE IF b = 0 THEN a
    ELSE (IF a % 2 = 1 \/ b % 2 = 1 THEN 1 ELSE 0) + 2 * BitOr(a \div 2, b \div 2)

RECURSIVE BitAnd(_, _)
BitAnd(a, b) ==
    IF a = 0 \/ b = 0 THEN 0
    ELSE (IF a % 2 = 1 /\ b % 2 = 1 THEN 1 ELSE 0) + 2 * BitAnd(a \div 2, b \div 2)

HasAdmin(perms) == BitAnd(perms, Permissions_Admin) = Permissions_Admin

MaxUint16 == 65535

-----------------------------------------------------------------------------
(* Strings, folding and parsing of expressions, and the matcher.           *)

Collation_utf8mb4_0900_ai_ci == "ai_ci"
Collation_utf8mb4_0900_bin == "bin"

\* len(s): the length of a string in bytes (every character here is ASCII).
StrLen(s) == Len(s)

\* The code point of a character.
CodePoint(c) ==
    CASE c = "%" -> 37
      [] c = "M" -> 77
      [] c = "X" -> 88
      [] c = "_" -> 95
      [] c = "a" -> 97
      [] c = "b" -> 98
      [] c = "d" -> 100
      [] c = "h" -> 104
      [] c = "l" -> 108
      [] c = "m" -> 109
      [] c = "r" -> 114
      [] c = "x" -> 120
      [] OTHER -> 0

LowerChar(c) == IF c = "M" THEN "m" ELSE IF c = "X" THEN "x" ELSE c

\* strings.ToLower. The sequence is concatenated with the empty one so
\* that it is held as a tuple, which long strings need to be indexed fast.
ToLower(s) == [i \in 1..Len(s) |-> LowerChar(s[i])] \o <<>>

ControlChars == {"\n", "\t"}

\* FoldExpression: control characters are stripped and a run of consecutive
\* '%' collapses to a single '%'; '_' is preserved; no case folding. A '%'
\* is dropped when the character that follows it is a '%'; nothing is
\* dropped from a string without two consecutive '%'.
FoldExpression(s) ==
    LET stripped == SelectSeq(s, LAMBDA c : c \notin ControlChars)
        marked == [i \in 1..Len(stripped) |->
                      [char |-> stripped[i],
                       drop |-> /\ stripped[i] = "%"
                                /\ i < Len(stripped)
                                /\ stripped[i + 1] = "%"]]
        kept == SelectSeq(marked, LAMBDA m : ~m.drop)
    IN  IF \A i \in 1..(Len(stripped) - 1) : stripped[i] # "%" \/ stripped[i + 1] # "%"
        THEN stripped
        ELSE [i \in 1..Len(kept) |-> kept[i].char] \o <<>>

\* The reserved sort orders of the two wildcards.
singleMatch == -1
anyMatch == -2

\* The collation weight of a character: the case-insensitive collation
\* gives both cases of a letter one weight, the binary one the code point.
Weight(c, collation) ==
    IF collation = Collation_utf8mb4_0900_ai_ci
    THEN CodePoint(LowerChar(c))
    ELSE CodePoint(c)

\* ParseExpression: fold, then one sort order per character.
ParseExpression(s, collation) ==
    LET f == FoldExpression(s)
    IN  [i \in 1..Len(f) |->
            IF f[i] = "%" THEN anyMatch
            ELSE IF f[i] = "_" THEN singleMatch
            ELSE Weight(f[i], collation)] \o <<>>

\* The sort orders of a concrete string: every character, '%' and '_'
\* included, has its own weight.
SortOrdersOf(str, collation) ==
    [i \in 1..Len(str) |-> Weight(str[i], collation)] \o <<>>

\* One expression against one string, LIKE semantics over sort orders.
\* An expression without a wildcard matches the string of the same sort
\* orders and no other.
RECURSIVE MatchSingle(_, _)
MatchSingle(sortOrders, cand) ==
    IF \A i \in 1..Len(sortOrders) : sortOrders[i] >= 0 THEN sortOrders = cand
    ELSE IF sortOrders = <<>> THEN cand = <<>>
    ELSE IF Head(sortOrders) = anyMatch
         THEN \/ MatchSingle(Tail(sortOrders), cand)
              \/ cand # <<>> /\ MatchSingle(sortOrders, Tail(cand))
    ELSE IF cand = <<>> THEN FALSE
    ELSE IF Head(sortOrders) = singleMatch
         THEN MatchSingle(Tail(sortOrders), Tail(cand))
    ELSE Head(sortOrders) = Head(cand) /\ MatchSingle(Tail(sortOrders), Tail(cand))

\* Match: the CollectionIndex of every expression that matches the string.
Match(matchExprCollection, str, collation) ==
    LET cand == SortOrdersOf(str, collation)
        hits == SelectSeq(matchExprCollection,
                          LAMBDA e : MatchSingle(e.SortOrders, cand))
    IN  [i \in 1..Len(hits) |-> hits[i].CollectionIndex]

-----------------------------------------------------------------------------
(* Access: the rule store.                                                 *)

\* The store as one value.
Tbl == [Branches |-> Branches, Users |-> Users, Hosts |-> Hosts, Values |-> Values]

\* newAccess
\* newAccess: no rows and an empty journal.
NewAccess == [binlog |-> <<>>, Branches |-> <<>>, Users |-> <<>>, Hosts |-> <<>>, Values |-> <<>>]

\* The serialized form of a store without rows and with an empty journal.
EmptyMessage ==
    [binlogErr |-> "nil", Binlog |-> <<>>,
     Branches |-> <<>>, Users |-> <<>>, Hosts |-> <<>>, Values |-> <<>>]

\* The threads that read the store under its lock, and the editor thread.
Readers == {"PartitionRows", "Serialize"}
Editor == "Editor"

EmptyTbl == [Branches |-> <<>>, Users |-> <<>>, Hosts |-> <<>>, Values |-> <<>>]

\* The editor has no operation in hand.
NoPending ==
    [op |-> "none", ctx |-> NoSession, old |-> NoRow, new |-> NoRow, err |-> "nil", todo |-> <<>>]

\* The statement of the editor: no statement has begun. begun is the store
\* as it was when the statement began.
NoStatement == [state |-> "IDLE", begun |-> EmptyTbl, err |-> "none"]

\* A blobstore that holds no blob under the key of the manifest.
NoBlob == [present |-> FALSE, ver |-> 0, data |-> <<>>]

\* manifestContents{}
NoContents == [lock |-> 0, root |-> 0]

\* ParseIfExists has not been called.
NotParsed ==
    [readHook |-> FALSE, ioFails |-> FALSE,
     panic |-> FALSE, exists |-> FALSE, contents |-> NoContents, err |-> "none"]

\* The processes that call Update on the manifest, and a process that has
\* not called it.
Writers == {"w1", "w2"}
NoUpdate ==
    [pc |-> "idle", lastLock |-> 0, newContents |-> NoContents, ver |-> 0,
     contents |-> NoContents, ret |-> NoContents, err |-> "none",
     panic |-> FALSE, wrote |-> FALSE]

\* A nil sql.Expression, and a LogTableFunction as NewInstance allocates
\* it: no revision, no option.
NilExpression == [isNil |-> TRUE, text |-> <<>>, isText |-> FALSE, resolved |-> FALSE]
NewLogTableFunction ==
    [revisionExpr |-> NilExpression, secondRevisionExpr |-> NilExpression,
     notRevision |-> <<>>, minParents |-> 0, showParents |-> FALSE, decoration |-> <<>>]

\* No call has been made.
NoCall ==
    [op |-> "none", expression |-> <<>>, calls |-> 0,
     result |-> "none", err |-> "nil", reason |-> "none"]

Init ==
    /\ Branches = <<>>
    /\ Users = <<>>
    /\ Hosts = <<>>
    /\ Values = <<>>
    /\ last = [op |-> "none", ctx |-> NoSession, old |-> NoRow, new |-> NoRow, err |-> "nil"]
    /\ RWMutex = [writer |-> FALSE, readers |-> 0]
    /\ pc = [t \in Readers \cup {Editor} |-> "idle"]
    /\ pending = NoPending
    /\ seen = [r \in Readers |-> EmptyTbl]
    /\ committed = EmptyTbl
    /\ binlog = <<>>
    /\ fb = EmptyMessage
    /\ dst = NewAccess
    /\ derr = "none"
    /\ statement = NoStatement
    /\ blob = NoBlob
    /\ parsed = NotParsed
    /\ updates = [w \in Writers |-> NoUpdate]
    /\ ltf = NewLogTableFunction
    /\ logCall = NoCall

\* Indexing a slice with one of the filters fails at run time when the
\* filter is not below the length of the slice.
InRange(slice, filters) == \A i \in 1..Len(filters) : filters[i] < Len(slice)

filterBranches(tbl, filters) == [i \in 1..Len(filters) |-> tbl.Branches[filters[i] + 1]]

filterHosts(tbl, filters) == [i \in 1..Len(filters) |-> tbl.Hosts[filters[i] + 1]]

\* A gathering that keeps the permissions of the last row alone.
gatherPermissionsLast(tbl, collectionIndexes) ==
    IF collectionIndexes = <<>> THEN 0
    ELSE tbl.Values[collectionIndexes[Len(collectionIndexes)] + 1].Permissions

RECURSIVE gatherPermissions(_, _)
gatherPermissions(tbl, collectionIndexes) ==
    IF collectionIndexes = <<>> THEN 0
    ELSE BitOr(tbl.Values[Head(collectionIndexes) + 1].Permissions,
               gatherPermissions(tbl, Tail(collectionIndexes)))

\* What a call of Access.Match ends in: a result, or a run-time panic.
Panicked == [panic |-> TRUE, matched |-> FALSE, perms |-> 0]
Returned(m, p) == [panic |-> FALSE, matched |-> m, perms |-> p]

\* Access.Match without the test for the superuser.
AccessMatchNoSuper(tbl, branch, user, host) ==
    LET byUser == Match(tbl.Users, user, Collation_utf8mb4_0900_bin)
    IN  IF ~InRange(tbl.Hosts, byUser) THEN Panicked
        ELSE
        LET byHost == Match(filterHosts(tbl, byUser), host, Collation_utf8mb4_0900_ai_ci)
        IN  IF ~InRange(tbl.Branches, byHost) THEN Panicked
            ELSE
            LET byBranch == Match(filterBranches(tbl, byHost), branch,
                                  Collation_utf8mb4_0900_ai_ci)
            IN  IF ~InRange(tbl.Values, byBranch) THEN Panicked
                ELSE Returned(Len(byBranch) > 0, gatherPermissions(tbl, byBranch))

AccessMatch(tbl, branch, user, host) ==
    IF SuperUser = user /\ SuperHost = host
    THEN Returned(TRUE, Permissions_Admin)
    ELSE
    LET byUser == Match(tbl.Users, user, Collation_utf8mb4_0900_bin)
    IN  IF ~InRange(tbl.Hosts, byUser) THEN Panicked
        ELSE
        LET byHost == Match(filterHosts(tbl, byUser), host, Collation_utf8mb4_0900_ai_ci)
        IN  IF ~InRange(tbl.Branches, byHost) THEN Panicked
            ELSE
            LET byBranch == Match(filterBranches(tbl, byHost), branch,
                                  Collation_utf8mb4_0900_ai_ci)
            IN  IF ~InRange(tbl.Values, byBranch) THEN Panicked
                ELSE Returned(Len(byBranch) > 0, gatherPermissions(tbl, byBranch))

\* The scratch pools. A buffer is named by the number of the Get that took
\* it; the nil slice, which no Get returns, is buffer 0.
Get(pool, buf) == [op |-> "Get", pool |-> pool, buf |-> buf]
Put(pool, buf) == [op |-> "Put", pool |-> pool, buf |-> buf]
Read(pool, buf) == [op |-> "Read", pool |-> pool, buf |-> buf]
Panics == [op |-> "panic", pool |-> "none", buf |-> 0]

\* filterHosts and filterBranches on the filters held in the index buffer
\* idx: nil and no Get when there are no filters, else a Get from
\* matchExprPool of the buffer named buf, filled while the filters are read.
filterEvents(filters, idx, buf) ==
    IF Len(filters) = 0 THEN <<>>
    ELSE <<Get("matchExprPool", buf), Read("indexPool", idx)>>

filterBuffer(filters, buf) == IF Len(filters) = 0 THEN 0 ELSE buf

\* What Access.Match does with the pools, in the order it does it. Match
\* of the package reads the expressions it is given and returns its
\* result in a buffer it takes from indexPool.
MatchPoolEvents(tbl, branch, user, host) ==
    IF SuperUser = user /\ SuperHost = host THEN <<>>
    ELSE
    LET byUser == Match(tbl.Users, user, Collation_utf8mb4_0900_bin)
        users == <<Get("indexPool", 1)>> \o filterEvents(byUser, 1, 2)
        hostsBuf == filterBuffer(byUser, 2)
    IN  IF ~InRange(tbl.Hosts, byUser) THEN users \o <<Panics>>
        ELSE
        LET byHost == Match(filterHosts(tbl, byUser), host, Collation_utf8mb4_0900_ai_ci)
            hosts == <<Put("indexPool", 1),
                       Read("matchExprPool", hostsBuf), Get("indexPool", 3),
                       Put("matchExprPool", hostsBuf)>>
                         \o filterEvents(byHost, 3, 4)
            branchesBuf == filterBuffer(byHost, 4)
        IN  IF ~InRange(tbl.Branches, byHost) THEN users \o hosts \o <<Panics>>
            ELSE
            LET byBranch == Match(filterBranches(tbl, byHost), branch,
                                  Collation_utf8mb4_0900_ai_ci)
                branches == <<Put("indexPool", 3),
                              Read("matchExprPool", branchesBuf), Get("indexPool", 5),
                              Put("matchExprPool", branchesBuf),
                              Read("indexPool", 5)>>
            IN  IF ~InRange(tbl.Values, byBranch) THEN users \o hosts \o branches \o <<Panics>>
                ELSE users \o hosts \o branches \o <<Put("indexPool", 5)>>

\* GetIndex, as a Go index: -1 when no row holds the triple.
GetIndex(tbl, branchExpr, userExpr, hostExpr) ==
    LET found == {i \in 1..Len(tbl.Values) :
                     /\ tbl.Values[i].Branch = branchExpr
                     /\ tbl.Values[i].User = userExpr
                     /\ tbl.Values[i].Host = hostExpr}
    IN  IF found = {} THEN -1
        ELSE (CHOOSE i \in found : \A j \in found : i <= j) - 1

-----------------------------------------------------------------------------
(* BranchControlTable: the table editor.                                   *)

\* A listing that returns the stored rows alone.
PartitionRowsStored(tbl) ==
    [i \in 1..Len(tbl.Values) |->
        <<tbl.Values[i].Branch, tbl.Values[i].User, tbl.Values[i].Host,
          tbl.Values[i].Permissions>>]

\* PartitionRows: the rows a listing of the table returns, each a sql.Row
\* of four columns.
PartitionRows(tbl) ==
    <<<<(<<"%">>), SuperUser, SuperHost, Permissions_Admin>>>>
        \o [i \in 1..Len(tbl.Values) |->
               <<tbl.Values[i].Branch, tbl.Values[i].User, tbl.Values[i].Host,
                 tbl.Values[i].Permissions>>]

\* The folded expressions of a row: branch and host are case-insensitive
\* and lowercased, user is case-sensitive.
FoldRow(row) ==
    [Branch |-> ToLower(FoldExpression(row.branch)),
     User |-> FoldExpression(row.user),
     Host |-> ToLower(FoldExpression(row.host)),
     Permissions |-> row.permissions]

\* A length check that refuses every expression that is not empty.
TooLongAny(f) ==
    StrLen(f.Branch) > 0 \/ StrLen(f.User) > 0 \/ StrLen(f.Host) > 0

\* The lengths of the expressions must fit within an uint16.
TooLong(f) ==
    StrLen(f.Branch) > MaxUint16 \/ StrLen(f.User) > MaxUint16 \/ StrLen(f.Host) > MaxUint16

\* Self-authorization that treats the nil session as a session.
AuthorizeNilSession(tbl, ctx, branch) ==
    LET m == AccessMatch(tbl, branch, ctx.user, ctx.host)
    IN  IF m.panic THEN "panic"
        ELSE IF BitAnd(m.perms, Permissions_Admin) # Permissions_Admin THEN "denied"
        ELSE "ok"

\* Self-authorization that asks whether any row matches the session.
AuthorizeOnMatched(tbl, ctx, branch) ==
    IF ~ctx.present THEN "ok"
    ELSE LET m == AccessMatch(tbl, branch, ctx.user, ctx.host)
         IN  IF m.panic THEN "panic"
             ELSE IF ~m.matched THEN "denied"
             ELSE "ok"

\* The self-authorization of the session on a folded branch expression,
\* used as though it were a branch name. A nil session is allowed.
Authorize(tbl, ctx, branch) ==
    IF ~ctx.present THEN "ok"
    ELSE LET m == AccessMatch(tbl, branch, ctx.user, ctx.host)
         IN  IF m.panic THEN "panic"
             ELSE IF BitAnd(m.perms, Permissions_Admin) # Permissions_Admin THEN "denied"
             ELSE "ok"

\* A subsumption check that asks for the write bit.
SubsumedOnWrite(tbl, branch, user, host) ==
    LET m == AccessMatch(tbl, branch, user, host)
    IN  IF m.panic THEN "panic"
        ELSE IF BitAnd(m.perms, Permissions_Write) = Permissions_Write THEN "yes"
        ELSE "no"

\* Whether an existing row already matches the expressions with admin.
Subsumed(tbl, branch, user, host) ==
    LET m == AccessMatch(tbl, branch, user, host)
    IN  IF m.panic THEN "panic"
        ELSE IF BitAnd(m.perms, Permissions_Admin) = Permissions_Admin THEN "yes"
        ELSE "no"

\* The outcome of an operation: the store it leaves and the error it returns.
Outcome(tbl, err) == [tbl |-> tbl, err |-> err]

\* An insert that appends without looking for the triple.
insertNoKeyCheck(tbl, branch, user, host, perms) ==
    LET nextIdx == Len(tbl.Values)
    IN  Outcome(
            [Branches |-> Append(tbl.Branches,
                                 [CollectionIndex |-> nextIdx,
                                  SortOrders |-> ParseExpression(branch, Collation_utf8mb4_0900_ai_ci)]),
             Users |-> Append(tbl.Users,
                              [CollectionIndex |-> nextIdx,
                               SortOrders |-> ParseExpression(user, Collation_utf8mb4_0900_bin)]),
             Hosts |-> Append(tbl.Hosts,
                              [CollectionIndex |-> nextIdx,
                               SortOrders |-> ParseExpression(host, Collation_utf8mb4_0900_ai_ci)]),
             Values |-> Append(tbl.Values,
                               [Branch |-> branch, User |-> user, Host |-> host,
                                Permissions |-> perms])],
            "nil")

\* The index of the triple must be -1; the row is appended with the next
\* index as the CollectionIndex of its three expressions.
insert(tbl, branch, user, host, perms) ==
    IF GetIndex(tbl, branch, user, host) # -1 THEN Outcome(tbl, "UniqueKeyErr")
    ELSE
    LET branchExpr == ParseExpression(branch, Collation_utf8mb4_0900_ai_ci)
        userExpr == ParseExpression(user, Collation_utf8mb4_0900_bin)
        hostExpr == ParseExpression(host, Collation_utf8mb4_0900_ai_ci)
        nextIdx == Len(tbl.Values)
    IN  Outcome(
            [Branches |-> Append(tbl.Branches,
                                 [CollectionIndex |-> nextIdx, SortOrders |-> branchExpr]),
             Users |-> Append(tbl.Users,
                              [CollectionIndex |-> nextIdx, SortOrders |-> userExpr]),
             Hosts |-> Append(tbl.Hosts,
                              [CollectionIndex |-> nextIdx, SortOrders |-> hostExpr]),
             Values |-> Append(tbl.Values,
                               [Branch |-> branch, User |-> user, Host |-> host,
                                Permissions |-> perms])],
            "nil")

\* slice[tblIndex], slice[endIndex] = slice[endIndex], slice[tblIndex]
\* followed by slice = slice[:endIndex], with Go indexes.
SwapShrink(slice, tblIndex, endIndex) ==
    [i \in 1..endIndex |-> IF i = tblIndex + 1 THEN slice[endIndex + 1] ELSE slice[i]]

\* A delete that shrinks the arrays without the swap.
deleteTruncate(tbl, branch, user, host) ==
    LET tblIndex == GetIndex(tbl, branch, user, host)
        endIndex == Len(tbl.Values) - 1
    IN  IF tblIndex = -1 THEN Outcome(tbl, "nil")
        ELSE Outcome(
                [Branches |-> SubSeq(tbl.Branches, 1, endIndex),
                 Users |-> SubSeq(tbl.Users, 1, endIndex),
                 Hosts |-> SubSeq(tbl.Hosts, 1, endIndex),
                 Values |-> SubSeq(tbl.Values, 1, endIndex)],
                "nil")

\* A delete that leaves the hosts as they are.
deleteKeepHosts(tbl, branch, user, host) ==
    LET tblIndex == GetIndex(tbl, branch, user, host)
        endIndex == Len(tbl.Values) - 1
    IN  IF tblIndex = -1 THEN Outcome(tbl, "nil")
        ELSE Outcome(
                [Branches |-> SwapShrink(tbl.Branches, tblIndex, endIndex),
                 Users |-> SwapShrink(tbl.Users, tblIndex, endIndex),
                 Hosts |-> tbl.Hosts,
                 Values |-> SwapShrink(tbl.Values, tblIndex, endIndex)],
                "nil")

\* if tblIndex == -1 return; else swap with the last row and shrink. The
\* CollectionIndex of the row that moves is not reassigned.
delete(tbl, branch, user, host) ==
    LET tblIndex == GetIndex(tbl, branch, user, host)
        endIndex == Len(tbl.Values) - 1
    IN  IF tblIndex = -1 THEN Outcome(tbl, "nil")
        ELSE Outcome(
                [Branches |-> SwapShrink(tbl.Branches, tblIndex, endIndex),
                 Users |-> SwapShrink(tbl.Users, tblIndex, endIndex),
                 Hosts |-> SwapShrink(tbl.Hosts, tblIndex, endIndex),
                 Values |-> SwapShrink(tbl.Values, tblIndex, endIndex)],
                "nil")

\* An insertion that looks for the exact duplicate before it authorizes
\* the session.
InsertOutcomeDuplicateFirst(tbl, ctx, row) ==
    LET f == FoldRow(row)
        auth == Authorize(tbl, ctx, f.Branch)
        sub == Subsumed(tbl, f.Branch, f.User, f.Host)
    IN  IF TooLong(f) THEN Outcome(tbl, "ErrExpressionsTooLong")
        ELSE IF GetIndex(tbl, f.Branch, f.User, f.Host) # -1 THEN Outcome(tbl, "UniqueKeyErr")
        ELSE IF auth = "panic" THEN Outcome(tbl, "panic")
        ELSE IF auth = "denied" THEN Outcome(tbl, "ErrInsertingRow")
        ELSE IF sub = "panic" THEN Outcome(tbl, "panic")
        ELSE IF sub = "yes" THEN Outcome(tbl, "UniqueKeyErr")
        ELSE insert(tbl, f.Branch, f.User, f.Host, f.Permissions)

InsertOutcome(tbl, ctx, row) ==
    LET f == FoldRow(row)
        auth == Authorize(tbl, ctx, f.Branch)
        sub == Subsumed(tbl, f.Branch, f.User, f.Host)
    IN  IF TooLong(f) THEN Outcome(tbl, "ErrExpressionsTooLong")
        ELSE IF auth = "panic" THEN Outcome(tbl, "panic")
        ELSE IF auth = "denied" THEN Outcome(tbl, "ErrInsertingRow")
        ELSE IF sub = "panic" THEN Outcome(tbl, "panic")
        ELSE IF sub = "yes" THEN Outcome(tbl, "UniqueKeyErr")
        ELSE insert(tbl, f.Branch, f.User, f.Host, f.Permissions)

\* An update that removes the old row before the subsumption check.
UpdateOutcomeDeleteFirst(tbl, ctx, old, new) ==
    LET o == FoldRow(old)
        n == FoldRow(new)
        authOld == Authorize(tbl, ctx, o.Branch)
        authNew == Authorize(tbl, ctx, n.Branch)
        deleted == IF GetIndex(tbl, o.Branch, o.User, o.Host) # -1
                   THEN delete(tbl, o.Branch, o.User, o.Host)
                   ELSE Outcome(tbl, "nil")
        sub == Subsumed(deleted.tbl, n.Branch, n.User, n.Host)
    IN  IF TooLong(n) THEN Outcome(tbl, "ErrExpressionsTooLong")
        ELSE IF /\ (o.Branch # n.Branch \/ o.User # n.User \/ o.Host # n.Host)
                /\ GetIndex(tbl, n.Branch, n.User, n.Host) # -1
             THEN Outcome(tbl, "UniqueKeyErr")
        ELSE IF authOld = "panic" THEN Outcome(tbl, "panic")
        ELSE IF authOld = "denied" THEN Outcome(tbl, "ErrUpdatingRow")
        ELSE IF authNew = "panic" THEN Outcome(tbl, "panic")
        ELSE IF authNew = "denied" THEN Outcome(tbl, "ErrUpdatingToRow")
        ELSE IF sub = "panic" THEN Outcome(deleted.tbl, "panic")
        ELSE IF sub = "yes" THEN Outcome(deleted.tbl, "UniqueKeyErr")
        ELSE insert(deleted.tbl, n.Branch, n.User, n.Host, n.Permissions)

\* An update that authorizes the session on the old branch only.
UpdateOutcomeOldOnly(tbl, ctx, old, new) ==
    LET o == FoldRow(old)
        n == FoldRow(new)
        authOld == Authorize(tbl, ctx, o.Branch)
        sub == Subsumed(tbl, n.Branch, n.User, n.Host)
        deleted == IF GetIndex(tbl, o.Branch, o.User, o.Host) # -1
                   THEN delete(tbl, o.Branch, o.User, o.Host)
                   ELSE Outcome(tbl, "nil")
    IN  IF TooLong(n) THEN Outcome(tbl, "ErrExpressionsTooLong")
        ELSE IF /\ (o.Branch # n.Branch \/ o.User # n.User \/ o.Host # n.Host)
                /\ GetIndex(tbl, n.Branch, n.User, n.Host) # -1
             THEN Outcome(tbl, "UniqueKeyErr")
        ELSE IF authOld = "panic" THEN Outcome(tbl, "panic")
        ELSE IF authOld = "denied" THEN Outcome(tbl, "ErrUpdatingRow")
        ELSE IF sub = "panic" THEN Outcome(tbl, "panic")
        ELSE IF sub = "yes" THEN Outcome(tbl, "UniqueKeyErr")
        ELSE IF deleted.err # "nil" THEN deleted
        ELSE insert(deleted.tbl, n.Branch, n.User, n.Host, n.Permissions)

\* An Update that does nothing when the old row is absent.
UpdateOutcomePresentOnly(tbl, ctx, old, new) ==
    LET o == FoldRow(old)
    IN  IF GetIndex(tbl, o.Branch, o.User, o.Host) = -1
        THEN Outcome(tbl, "nil")
        ELSE UpdateOutcomeDeleteFirst(tbl, ctx, old, new)

UpdateOutcome(tbl, ctx, old, new) ==
    LET o == FoldRow(old)
        n == FoldRow(new)
        authOld == Authorize(tbl, ctx, o.Branch)
        authNew == Authorize(tbl, ctx, n.Branch)
        sub == Subsumed(tbl, n.Branch, n.User, n.Host)
        deleted == IF GetIndex(tbl, o.Branch, o.User, o.Host) # -1
                   THEN delete(tbl, o.Branch, o.User, o.Host)
                   ELSE Outcome(tbl, "nil")
    IN  IF TooLong(n) THEN Outcome(tbl, "ErrExpressionsTooLong")
        ELSE IF /\ (o.Branch # n.Branch \/ o.User # n.User \/ o.Host # n.Host)
                /\ GetIndex(tbl, n.Branch, n.User, n.Host) # -1
             THEN Outcome(tbl, "UniqueKeyErr")
        ELSE IF authOld = "panic" THEN Outcome(tbl, "panic")
        ELSE IF authOld = "denied" THEN Outcome(tbl, "ErrUpdatingRow")
        ELSE IF authNew = "panic" THEN Outcome(tbl, "panic")
        ELSE IF authNew = "denied" THEN Outcome(tbl, "ErrUpdatingToRow")
        ELSE IF sub = "panic" THEN Outcome(tbl, "panic")
        ELSE IF sub = "yes" THEN Outcome(tbl, "UniqueKeyErr")
        ELSE IF deleted.err # "nil" THEN deleted
        ELSE insert(deleted.tbl, n.Branch, n.User, n.Host, n.Permissions)

DeleteOutcome(tbl, ctx, row) ==
    LET f == FoldRow(row)
        auth == Authorize(tbl, ctx, f.Branch)
    IN  IF auth = "panic" THEN Outcome(tbl, "panic")
        ELSE IF auth = "denied" THEN Outcome(tbl, "ErrDeletingRow")
        ELSE delete(tbl, f.Branch, f.User, f.Host)

\* The step of an operation that ends in outcome r, in a store of at most
\* so many rows.
StepWithin(rows, op, ctx, old, new, r) ==
    /\ Len(r.tbl.Values) <= rows
    /\ Branches' = r.tbl.Branches
    /\ Users' = r.tbl.Users
    /\ Hosts' = r.tbl.Hosts
    /\ Values' = r.tbl.Values
    /\ last' = [op |-> op, ctx |-> ctx, old |-> old, new |-> new, err |-> r.err]
    /\ UNCHANGED threads
    /\ UNCHANGED codec
    /\ UNCHANGED <<statement, nbs, sqle>>

Step(op, ctx, old, new, r) == StepWithin(MaxRows, op, ctx, old, new, r)

Insert(ctx, row) ==
    \E r \in {InsertOutcome(Tbl, ctx, row)} : Step("Insert", ctx, NoRow, row, r)

Update(ctx, old, new) ==
    \E r \in {UpdateOutcome(Tbl, ctx, old, new)} : Step("Update", ctx, old, new, r)

Delete(ctx, row) ==
    \E r \in {DeleteOutcome(Tbl, ctx, row)} : Step("Delete", ctx, row, NoRow, r)

Next ==
    \/ \E ctx \in Sessions, row \in NewRows : Insert(ctx, row)
    \/ \E ctx \in Sessions, old \in OldRows, new \in NewRows : Update(ctx, old, new)
    \/ \E ctx \in Sessions, row \in OldRows : Delete(ctx, row)

Spec == Init /\ [][Next]_vars

-----------------------------------------------------------------------------
(* The editor and the readers as threads that take the lock of the store.  *)
(* The editor runs the statements of insert and delete one at a time.      *)

\* A write lock that does not wait for the readers.
CanLockBesideReaders(mutex) == ~mutex.writer

\* RWMutex.Lock() is granted when nobody holds the lock.
CanLock(mutex) == ~mutex.writer /\ mutex.readers = 0

\* A read lock that does not wait for the writer.
CanRLockAlways(mutex) == TRUE

\* RWMutex.RLock() is granted when no writer holds the lock.
CanRLock(mutex) == ~mutex.writer

\* The store after each of the four appends of insert.
insertStatements(tbl, branch, user, host, perms) ==
    LET r == insert(tbl, branch, user, host, perms).tbl
        s1 == [tbl EXCEPT !.Branches = r.Branches]
        s2 == [s1 EXCEPT !.Users = r.Users]
        s3 == [s2 EXCEPT !.Hosts = r.Hosts]
    IN  <<s1, s2, s3, r>>

\* slice[tblIndex], slice[endIndex] = slice[endIndex], slice[tblIndex]
Swap(slice, tblIndex, endIndex) ==
    [i \in 1..Len(slice) |->
        IF i = tblIndex + 1 THEN slice[endIndex + 1]
        ELSE IF i = endIndex + 1 THEN slice[tblIndex + 1]
        ELSE slice[i]]

\* The store after each of the four swaps and the four truncations of
\* delete; no statement when the triple is absent.
deleteStatements(tbl, branch, user, host) ==
    LET tblIndex == GetIndex(tbl, branch, user, host)
        endIndex == Len(tbl.Values) - 1
        s1 == [tbl EXCEPT !.Branches = Swap(tbl.Branches, tblIndex, endIndex)]
        s2 == [s1 EXCEPT !.Users = Swap(tbl.Users, tblIndex, endIndex)]
        s3 == [s2 EXCEPT !.Hosts = Swap(tbl.Hosts, tblIndex, endIndex)]
        s4 == [s3 EXCEPT !.Values = Swap(tbl.Values, tblIndex, endIndex)]
        s5 == [s4 EXCEPT !.Branches = SubSeq(s4.Branches, 1, endIndex)]
        s6 == [s5 EXCEPT !.Users = SubSeq(s5.Users, 1, endIndex)]
        s7 == [s6 EXCEPT !.Hosts = SubSeq(s6.Hosts, 1, endIndex)]
        s8 == [s7 EXCEPT !.Values = SubSeq(s7.Values, 1, endIndex)]
    IN  IF tblIndex = -1 THEN <<>> ELSE <<s1, s2, s3, s4, s5, s6, s7, s8>>

\* The outcome of the operation as a whole.
OutcomeOf(tbl, op, ctx, old, new) ==
    IF op = "Insert" THEN InsertOutcome(tbl, ctx, new)
    ELSE IF op = "Update" THEN UpdateOutcome(tbl, ctx, old, new)
    ELSE DeleteOutcome(tbl, ctx, old)

\* The statements by which the operation changes the store: none when it
\* returns an error.
StatementsOf(tbl, op, ctx, old, new) ==
    LET o == FoldRow(old)
        n == FoldRow(new)
    IN  IF OutcomeOf(tbl, op, ctx, old, new).err # "nil" THEN <<>>
        ELSE IF op = "Insert" THEN insertStatements(tbl, n.Branch, n.User, n.Host, n.Permissions)
        ELSE IF op = "Delete" THEN deleteStatements(tbl, o.Branch, o.User, o.Host)
        ELSE deleteStatements(tbl, o.Branch, o.User, o.Host)
                 \o insertStatements(delete(tbl, o.Branch, o.User, o.Host).tbl,
                                     n.Branch, n.User, n.Host, n.Permissions)

\* tbl.RWMutex.Lock() at the start of Insert, Update and Delete; the
\* checks of the operation read the store under the lock.
EditorLock(op, ctx, old, new) ==
    /\ pc[Editor] = "idle"
    /\ CanLock(RWMutex)
    /\ Len(OutcomeOf(Tbl, op, ctx, old, new).tbl.Values) <= MaxRows
    /\ RWMutex' = [RWMutex EXCEPT !.writer = TRUE]
    /\ pc' = [pc EXCEPT ![Editor] = "locked"]
    /\ pending' = [op |-> op, ctx |-> ctx, old |-> old, new |-> new,
                   err |-> OutcomeOf(Tbl, op, ctx, old, new).err,
                   todo |-> StatementsOf(Tbl, op, ctx, old, new)]
    /\ UNCHANGED <<store, last, seen, committed>>
    /\ UNCHANGED codec
    /\ UNCHANGED <<statement, nbs, sqle>>

\* The next statement of insert or delete.
EditorStatement ==
    /\ pc[Editor] = "locked"
    /\ pending.todo # <<>>
    /\ Branches' = Head(pending.todo).Branches
    /\ Users' = Head(pending.todo).Users
    /\ Hosts' = Head(pending.todo).Hosts
    /\ Values' = Head(pending.todo).Values
    /\ pending' = [pending EXCEPT !.todo = Tail(pending.todo)]
    /\ UNCHANGED <<last, RWMutex, pc, seen, committed>>
    /\ UNCHANGED codec
    /\ UNCHANGED <<statement, nbs, sqle>>

\* The deferred tbl.RWMutex.Unlock() as the operation returns.
EditorUnlock ==
    /\ pc[Editor] = "locked"
    /\ pending.todo = <<>>
    /\ RWMutex' = [RWMutex EXCEPT !.writer = FALSE]
    /\ pc' = [pc EXCEPT ![Editor] = "idle"]
    /\ last' = [op |-> pending.op, ctx |-> pending.ctx, old |-> pending.old,
                new |-> pending.new, err |-> pending.err]
    /\ pending' = NoPending
    /\ committed' = Tbl
    /\ UNCHANGED <<store, seen>>
    /\ UNCHANGED codec
    /\ UNCHANGED <<statement, nbs, sqle>>

\* tbl.RWMutex.RLock() at the start of PartitionRows and of Serialize.
RLock(r) ==
    /\ pc[r] = "idle"
    /\ CanRLock(RWMutex)
    /\ RWMutex' = [RWMutex EXCEPT !.readers = @ + 1]
    /\ pc' = [pc EXCEPT ![r] = "Branches"]
    /\ UNCHANGED <<store, last, pending, seen, committed>>
    /\ UNCHANGED codec
    /\ UNCHANGED <<statement, nbs, sqle>>

\* Serialize reads the four slices one after the other; PartitionRows
\* reads the values only.
ReadSlice(r) ==
    /\ pc[r] \in {"Branches", "Users", "Hosts", "Values"}
    /\ IF r = "PartitionRows"
       THEN /\ seen' = [seen EXCEPT ![r].Values = Values]
            /\ pc' = [pc EXCEPT ![r] = "read"]
       ELSE /\ seen' = [seen EXCEPT ![r][pc[r]] = Tbl[pc[r]]]
            /\ pc' = [pc EXCEPT ![r] = CASE pc[r] = "Branches" -> "Users"
                                          [] pc[r] = "Users" -> "Hosts"
                                          [] pc[r] = "Hosts" -> "Values"
                                          [] pc[r] = "Values" -> "read"]
    /\ UNCHANGED <<store, last, RWMutex, pending, committed>>
    /\ UNCHANGED codec
    /\ UNCHANGED <<statement, nbs, sqle>>

\* The deferred tbl.RWMutex.RUnlock().
RUnlock(r) ==
    /\ pc[r] = "read"
    /\ RWMutex' = [RWMutex EXCEPT !.readers = @ - 1]
    /\ pc' = [pc EXCEPT ![r] = "idle"]
    /\ seen' = [seen EXCEPT ![r] = EmptyTbl]
    /\ UNCHANGED <<store, last, pending, committed>>
    /\ UNCHANGED codec
    /\ UNCHANGED <<statement, nbs, sqle>>

\* The rows the editor thread is called with.
ThreadRows == OldRows

NextThreads ==
    \/ \E ctx \in Sessions, row \in ThreadRows : EditorLock("Insert", ctx, NoRow, row)
    \/ \E ctx \in Sessions, old \in ThreadRows, new \in ThreadRows :
           EditorLock("Update", ctx, old, new)
    \/ \E ctx \in Sessions, row \in ThreadRows : EditorLock("Delete", ctx, row, NoRow)
    \/ EditorStatement
    \/ EditorUnlock
    \/ \E r \in Readers : RLock(r)
    \/ \E r \in Readers : ReadSlice(r)
    \/ \E r \in Readers : RUnlock(r)

SpecThreads == Init /\ [][NextThreads]_vars

-----------------------------------------------------------------------------
(* Serialize and Deserialize.                                              *)

\* The characters of the strings of the model.
Alphabet == {"%", "M", "X", "_", "a", "b", "d", "h", "l", "m", "r", "x"}

\* b.CreateString: the bytes of the string.
CreateString(str) == [i \in 1..Len(str) |-> CodePoint(str[i])] \o <<>>

\* string(bytes)
StringOf(bytes) == [i \in 1..Len(bytes) |-> CHOOSE c \in Alphabet : CodePoint(c) = bytes[i]] \o <<>>

\* A sort order as the u32 of the message, written as its high and low
\* 16 bits, and back as an int32.
Uint32(x) == <<(x \div (2 ^ 16)) % (2 ^ 16), x % (2 ^ 16)>>
Int32(u) == IF u[1] >= 2 ^ 15 THEN (u[1] - 2 ^ 16) * (2 ^ 16) + u[2] ELSE u[1] * (2 ^ 16) + u[2]

\* MatchExpr := u32 collection_index, u32 nweights, nweights x u32 weight
SerializeMatchExpression(matchExpr) ==
    [CollectionIndex |-> matchExpr.CollectionIndex,
     SortOrders |-> [i \in 1..Len(matchExpr.SortOrders) |-> Uint32(matchExpr.SortOrders[i])]]

deserializeMatchExpression(serialMatchExpr) ==
    [CollectionIndex |-> serialMatchExpr.CollectionIndex,
     SortOrders |-> [i \in 1..Len(serialMatchExpr.SortOrders) |->
                        Int32(serialMatchExpr.SortOrders[i])]]

\* AccessValue.Serialize; Permissions is an uint64 already.
SerializeAccessValue(val) ==
    [Branch |-> CreateString(val.Branch),
     User |-> CreateString(val.User),
     Host |-> CreateString(val.Host),
     Permissions |-> val.Permissions]

\* The AccessValue that Deserialize reads.
DeserializeAccessValue(serialAccessValue) ==
    [Branch |-> StringOf(serialAccessValue.Branch),
     User |-> StringOf(serialAccessValue.User),
     Host |-> StringOf(serialAccessValue.Host),
     Permissions |-> serialAccessValue.Permissions]

\* Binlog := u32 count, count x (u8 opcode, AccessValue)
SerializeBinlog(log) ==
    [i \in 1..Len(log) |-> [opcode |-> log[i].opcode, value |-> SerializeAccessValue(log[i].value)]]

DeserializeBinlog(serialBinlog) ==
    [i \in 1..Len(serialBinlog) |->
        [opcode |-> serialBinlog[i].opcode, value |-> DeserializeAccessValue(serialBinlog[i].value)]]

\* The vector that holds offsets[i], ..., offsets[len] after they have
\* been prepended from the last to the i-th.
RECURSIVE Prepended(_, _)
Prepended(offsets, i) ==
    IF i > Len(offsets) THEN <<>> ELSE <<offsets[i]>> \o Prepended(offsets, i + 1)

\* Access.Serialize
AccessSerialize(tbl, log) ==
    LET branchOffsets == [i \in 1..Len(tbl.Branches) |-> SerializeMatchExpression(tbl.Branches[i])]
        userOffsets == [i \in 1..Len(tbl.Users) |-> SerializeMatchExpression(tbl.Users[i])]
        hostOffsets == [i \in 1..Len(tbl.Hosts) |-> SerializeMatchExpression(tbl.Hosts[i])]
        valueOffsets == [i \in 1..Len(tbl.Values) |-> SerializeAccessValue(tbl.Values[i])]
    IN  [binlogErr |-> "nil",
         Binlog |-> SerializeBinlog(log),
         Branches |-> Prepended(branchOffsets, 1),
         Users |-> Prepended(userOffsets, 1),
         Hosts |-> Prepended(hostOffsets, 1),
         Values |-> Prepended(valueOffsets, 1)]

\* A Deserialize that reads into a store that has rows.
AccessDeserializeOverRows(tbl, msg) ==
    IF \/ Len(msg.Branches) # Len(msg.Users)
       \/ Len(msg.Users) # Len(msg.Hosts)
       \/ Len(msg.Hosts) # Len(msg.Values)
    THEN [tbl |-> tbl, err |-> "differing field lengths"]
    ELSE IF msg.binlogErr # "nil" THEN [tbl |-> tbl, err |-> msg.binlogErr]
    ELSE [tbl |-> [binlog |-> DeserializeBinlog(msg.Binlog),
                   Branches |-> [i \in 1..Len(msg.Branches) |->
                                    deserializeMatchExpression(msg.Branches[i])],
                   Users |-> [i \in 1..Len(msg.Users) |->
                                 deserializeMatchExpression(msg.Users[i])],
                   Hosts |-> [i \in 1..Len(msg.Hosts) |->
                                 deserializeMatchExpression(msg.Hosts[i])],
                   Values |-> [i \in 1..Len(msg.Values) |->
                                  DeserializeAccessValue(msg.Values[i])]],
          err |-> "nil"]

\* A Deserialize that reads the users of the message as the hosts.
AccessDeserializeHostsFromUsers(tbl, msg) ==
    LET r == AccessDeserializeOverRows(tbl, msg)
    IN  IF Len(tbl.Values) # 0 THEN [tbl |-> tbl, err |-> "non-empty access table"]
        ELSE IF r.err # "nil" THEN r
        ELSE [tbl |-> [r.tbl EXCEPT !.Hosts = r.tbl.Users], err |-> "nil"]

\* Access.Deserialize: the store must be empty and the four vectors of
\* the message of one length; the journal is read first, then the rows.
\* msg.binlogErr is the error of fb.TryBinlog or of binlog.Deserialize.
AccessDeserialize(tbl, msg) ==
    IF Len(tbl.Values) # 0 THEN [tbl |-> tbl, err |-> "non-empty access table"]
    ELSE IF \/ Len(msg.Branches) # Len(msg.Users)
            \/ Len(msg.Users) # Len(msg.Hosts)
            \/ Len(msg.Hosts) # Len(msg.Values)
         THEN [tbl |-> tbl, err |-> "differing field lengths"]
    ELSE IF msg.binlogErr # "nil" THEN [tbl |-> tbl, err |-> msg.binlogErr]
    ELSE [tbl |-> [binlog |-> DeserializeBinlog(msg.Binlog),
                   Branches |-> [i \in 1..Len(msg.Branches) |->
                                    deserializeMatchExpression(msg.Branches[i])],
                   Users |-> [i \in 1..Len(msg.Users) |->
                                 deserializeMatchExpression(msg.Users[i])],
                   Hosts |-> [i \in 1..Len(msg.Hosts) |->
                                 deserializeMatchExpression(msg.Hosts[i])],
                   Values |-> [i \in 1..Len(msg.Values) |->
                                  DeserializeAccessValue(msg.Values[i])]],
          err |-> "nil"]

\* tbl.Serialize of the store under edit.
Serialize ==
    /\ fb' = AccessSerialize(Tbl, binlog)
    /\ UNCHANGED <<store, last, binlog, dst, derr>>
    /\ UNCHANGED threads
    /\ UNCHANGED <<statement, nbs, sqle>>

\* A message that does not come from Serialize is at hand.
Receive(msg) ==
    /\ fb' = msg
    /\ UNCHANGED <<store, last, binlog, dst, derr>>
    /\ UNCHANGED threads
    /\ UNCHANGED <<statement, nbs, sqle>>

\* dst.Deserialize of the message at hand.
Deserialize ==
    /\ \E r \in {AccessDeserialize(dst, fb)} :
           /\ dst' = r.tbl
           /\ derr' = r.err
    /\ UNCHANGED <<store, last, binlog, fb>>
    /\ UNCHANGED threads
    /\ UNCHANGED <<statement, nbs, sqle>>

\* newAccess: another store to deserialize into.
FreshAccess ==
    /\ dst' = NewAccess
    /\ derr' = "none"
    /\ UNCHANGED <<store, last, binlog, fb>>
    /\ UNCHANGED threads
    /\ UNCHANGED <<statement, nbs, sqle>>

\* A store of one row and a journal of one entry, serialized elsewhere.
JournalledMessage ==
    LET tbl == insert(EmptyTbl, <<"m">>, <<"a">>, <<"%">>, Permissions_Write).tbl
    IN  AccessSerialize(tbl, <<[opcode |-> "INSERT", value |-> tbl.Values[1]]>>)

\* Messages that Deserialize may be given: a good one, one whose vectors
\* differ in length, and two whose journal cannot be read.
ExternalMessages ==
    { JournalledMessage,
      [JournalledMessage EXCEPT !.Branches = <<>>],
      [JournalledMessage EXCEPT !.binlogErr = "TryBinlog"],
      [JournalledMessage EXCEPT !.binlogErr = "binlog.Deserialize"] }

\* The rows the editor is called with beside Serialize and Deserialize.
CodecRows == {row \in OldRows : row.user = <<"a">>}

NextCodec ==
    \/ \E row \in CodecRows : Insert(NoSession, row)
    \/ \E old \in CodecRows, new \in CodecRows : Update(NoSession, old, new)
    \/ \E row \in CodecRows : Delete(NoSession, row)
    \/ Serialize
    \/ \E msg \in ExternalMessages : Receive(msg)
    \/ Deserialize
    \/ FreshAccess

SpecCodec == Init /\ [][NextCodec]_vars

-----------------------------------------------------------------------------
(* The editor called with expressions at the limit of length.              *)

\* The string of n times the character a.
Repeat(n) == [i \in 1..n |-> "a"] \o <<>>

\* The longest expression that fits within an uint16 and the shortest
\* that does not.
LongestExpression == Repeat(MaxUint16)
OverlongExpression == Repeat(MaxUint16 + 1)

\* A row whose three expressions are of the greatest length.
LongestRow ==
    Row(<<LongestExpression, LongestExpression, LongestExpression>>, Permissions_Write)

\* Rows with one expression too long: the branch, the user, the host.
OverlongRows ==
    { Row(<<OverlongExpression, <<"b">>, <<"X">>>>, Permissions_Write),
      Row(<<<<"M">>, OverlongExpression, <<"X">>>>, Permissions_Write),
      Row(<<<<"M">>, <<"b">>, OverlongExpression>>, Permissions_Write) }

\* Short rows of one triple, which matches the session of Alice: the row
\* with admin and the row with write.
AdminRow == Row(<<<<"M">>, <<"a">>, <<"h">>>>, Permissions_Admin)
WriteRow == Row(<<<<"M">>, <<"a">>, <<"h">>>>, Permissions_Write)

\* The calls the editor receives: who inserts which row, which row is
\* updated to which, and which row is deleted.
LongInserts ==
    ({NoSession} \X ({LongestRow, AdminRow, WriteRow} \cup OverlongRows))
        \cup ({Alice} \X ({WriteRow} \cup {row \in OverlongRows :
                                                row.user = <<"b">> /\ row.host = <<"X">>}))
LongUpdates == {WriteRow} \X ({AdminRow} \cup OverlongRows)
LongDeletes == {WriteRow}

NextLong ==
    \/ \E call \in LongInserts : Insert(call[1], call[2])
    \/ \E call \in LongUpdates : Update(NoSession, call[1], call[2])
    \/ \E row \in LongDeletes : Delete(NoSession, row)

SpecLong == Init /\ [][NextLong]_vars

-----------------------------------------------------------------------------
(* The editor, without a session, on a store of up to three rows.          *)

MaxRowsMoved == 3

\* The triples of the rules, and one more rule of the user b.
MovedTriples == RawTriples \cup { <<<<"M">>, <<"b">>, <<"%">>>> }
MovedOldRows == {Row(t, Permissions_Write) : t \in MovedTriples}
MovedRows == MovedOldRows \cup { Row(<<<<"_">>, <<"a">>, <<"_">>>>, Permissions_Admin) }

InsertMoved(row) ==
    \E r \in {InsertOutcome(Tbl, NoSession, row)} :
        StepWithin(MaxRowsMoved, "Insert", NoSession, NoRow, row, r)

DeleteMoved(row) ==
    \E r \in {DeleteOutcome(Tbl, NoSession, row)} :
        StepWithin(MaxRowsMoved, "Delete", NoSession, row, NoRow, r)

NextMoved ==
    \/ \E row \in MovedRows : InsertMoved(row)
    \/ \E row \in MovedOldRows : DeleteMoved(row)

SpecMoved == Init /\ [][NextMoved]_vars

-----------------------------------------------------------------------------
(* The editor called with the triple of the superuser.                     *)

Root == [present |-> TRUE, user |-> SuperUser, host |-> SuperHost]

SuperTriples ==
    { <<<<"%">>, SuperUser, SuperHost>>,
      <<<<"%", "%">>, SuperUser, SuperHost>>,
      <<<<"M">>, <<"a">>, <<"%">>>>,
      <<<<"_">>, <<"a">>, <<"_">>>> }
SuperNewRows == {Row(t, p) : t \in SuperTriples, p \in {Permissions_Admin, Permissions_Write}}
SuperOldRows == {Row(t, Permissions_Write) : t \in SuperTriples}

NextSuper ==
    \/ \E ctx \in {NoSession, Root}, row \in SuperNewRows : Insert(ctx, row)
    \/ \E ctx \in {NoSession, Root}, old \in SuperOldRows, new \in SuperNewRows :
           Update(ctx, old, new)
    \/ \E ctx \in {NoSession, Root}, row \in SuperOldRows : Delete(ctx, row)

SpecSuper == Init /\ [][NextSuper]_vars

-----------------------------------------------------------------------------
(* The statements of the editor: sql.TableEditor.                          *)

\* StatementBegin does nothing to the store; the statement is open from
\* here on, and begun records the store it began in.
StatementBegin ==
    /\ statement.state # "OPEN"
    /\ statement' = [state |-> "OPEN", begun |-> Tbl, err |-> "none"]
    /\ UNCHANGED <<store, last, nbs, sqle>>
    /\ UNCHANGED threads
    /\ UNCHANGED codec

\* DiscardChanges returns nil and does nothing to the store.
DiscardChanges ==
    /\ statement.state = "OPEN"
    /\ statement' = [statement EXCEPT !.state = "ROLLED_BACK", !.err = "nil"]
    /\ UNCHANGED <<store, last, nbs, sqle>>
    /\ UNCHANGED threads
    /\ UNCHANGED codec

\* StatementComplete returns nil and does nothing to the store.
StatementComplete ==
    /\ statement.state = "OPEN"
    /\ statement' = [statement EXCEPT !.state = "COMMITTED", !.err = "nil"]
    /\ UNCHANGED <<store, last, nbs, sqle>>
    /\ UNCHANGED threads
    /\ UNCHANGED codec

\* The rows of the statements.
StatementRows == {row \in NewRows : row.user = <<"a">> /\ row.permissions = Permissions_Write}

NextStatement ==
    \/ StatementBegin
    \/ DiscardChanges
    \/ StatementComplete
    \/ \E row \in StatementRows : Insert(NoSession, row)
    \/ \E row \in StatementRows : Delete(NoSession, row)

SpecStatement == Init /\ [][NextStatement]_vars

-----------------------------------------------------------------------------
(* blobstoreManifest: the manifest of a chunk store, held in a blobstore.  *)

MaxVersion == 3

Locks == {1, 2}
Roots == {1, 2}
Contents == [lock : Locks, root : Roots]

\* The storage version that a manifest begins with.
StorageVersion == "5"

\* writeManifest: the fields of the manifest, one after the other.
writeManifest(contents) == <<StorageVersion, contents.lock, contents.root>>

\* parseManifest: the contents, or an error when the fields are not those
\* of a manifest of this storage version.
parseManifest(data) ==
    IF Len(data) = 3 /\ data[1] = StorageVersion
    THEN [contents |-> [lock |-> data[2], root |-> data[3]], err |-> "nil"]
    ELSE [contents |-> NoContents, err |-> "parse"]

\* bs.Get of the whole blob: the bytes and the version of the blob, a
\* NotFound error when there is no blob, or the error of a failed read.
bsGet(bs, ioFails) ==
    IF ioFails THEN [data |-> <<>>, ver |-> 0, err |-> "io"]
    ELSE IF ~bs.present THEN [data |-> <<>>, ver |-> 0, err |-> "NotFound"]
    ELSE [data |-> bs.data, ver |-> bs.ver, err |-> "nil"]

IsNotFoundError(err) == err = "NotFound"

manifestVersionAndContents(bs, ioFails) ==
    LET got == bsGet(bs, ioFails)
        read == parseManifest(got.data)
    IN  IF got.err # "nil" THEN [ver |-> 0, contents |-> NoContents, err |-> got.err]
        ELSE IF read.err # "nil" THEN [ver |-> 0, contents |-> NoContents, err |-> read.err]
        ELSE [ver |-> got.ver, contents |-> read.contents, err |-> "nil"]

\* What a call ends in: a panic, or the three values returned.
ParseResult(panic, exists, contents, err) ==
    [panic |-> panic, exists |-> exists, contents |-> contents, err |-> err]

\* A ParseIfExists that reports no manifest whenever it cannot read one.
ParseIfExistsAbsentOnError(bs, readHook, ioFails) ==
    LET r == manifestVersionAndContents(bs, ioFails)
    IN  IF readHook THEN ParseResult(TRUE, FALSE, NoContents, "none")
        ELSE IF r.err # "nil" THEN ParseResult(FALSE, FALSE, r.contents, "nil")
        ELSE ParseResult(FALSE, TRUE, r.contents, "nil")

ParseIfExistsOutcome(bs, readHook, ioFails) ==
    LET r == manifestVersionAndContents(bs, ioFails)
    IN  IF readHook THEN ParseResult(TRUE, FALSE, NoContents, "none")
        ELSE IF r.err # "nil"
             THEN IF IsNotFoundError(r.err)
                  THEN ParseResult(FALSE, FALSE, r.contents, "nil")
                  ELSE ParseResult(FALSE, TRUE, r.contents, r.err)
        ELSE ParseResult(FALSE, TRUE, r.contents, "nil")

\* bsm.ParseIfExists(ctx, stats, readHook)
ParseIfExists(readHook, ioFails) ==
    /\ \E r \in {ParseIfExistsOutcome(blob, readHook, ioFails)} :
           parsed' = [readHook |-> readHook, ioFails |-> ioFails,
                      panic |-> r.panic, exists |-> r.exists,
                      contents |-> r.contents, err |-> r.err]
    /\ UNCHANGED <<blob, updates>>
    /\ UNCHANGED <<store, last, statement, sqle>>
    /\ UNCHANGED threads
    /\ UNCHANGED codec

\* What a writer of the blobstore may put under the key of the manifest:
\* a manifest, a manifest cut short, or one of another storage version.
ManifestBlobs ==
    {writeManifest(c) : c \in Contents} \cup { <<StorageVersion>>, <<"4", 1, 1>> }

\* A writer puts a blob under the key of the manifest.
PutBlob(data) ==
    /\ blob.ver < MaxVersion
    /\ blob' = [present |-> TRUE, ver |-> blob.ver + 1, data |-> data]
    /\ UNCHANGED <<parsed, updates>>
    /\ UNCHANGED <<store, last, statement, sqle>>
    /\ UNCHANGED threads
    /\ UNCHANGED codec

NextManifest ==
    \/ \E readHook \in BOOLEAN, ioFails \in BOOLEAN : ParseIfExists(readHook, ioFails)
    \/ \E data \in ManifestBlobs : PutBlob(data)

SpecManifest == Init /\ [][NextManifest]_vars

-----------------------------------------------------------------------------
(* blobstoreManifest.Update, called by several processes at once. A call   *)
(* reads the manifest and, when its lock is lastLock, writes the new one   *)
(* with CheckAndPut; the two accesses to the blobstore are two steps.      *)

IsCheckAndPutError(err) == err = "CheckAndPut"

\* A CheckAndPut that stores whatever the version of the blob is.
CheckAndPutAnyVersion(bs, expectedVersion, data, ioFails) ==
    IF ioFails THEN [bs |-> bs, err |-> "io"]
    ELSE [bs |-> [present |-> TRUE, ver |-> bs.ver + 1, data |-> data], err |-> "nil"]

\* bs.CheckAndPut: stores the data, as a new version of the blob, when the
\* blob is of the version expected, and returns a CheckAndPut error when
\* it is of another; or the write fails.
CheckAndPut(bs, expectedVersion, data, ioFails) ==
    IF ioFails THEN [bs |-> bs, err |-> "io"]
    ELSE IF ~bs.present \/ bs.ver # expectedVersion
         THEN [bs |-> bs, err |-> "CheckAndPut"]
    ELSE [bs |-> [present |-> TRUE, ver |-> bs.ver + 1, data |-> data], err |-> "nil"]

\* The call returns the contents and the error.
UpdateReturns(u, contents, err) ==
    [u EXCEPT !.pc = "done", !.ret = contents, !.err = err]

\* Update up to the call of CheckAndPut: the call panics, returns, or has
\* the new manifest to put over the version it has read.
UpdateAfterRead(lastLock, newContents, writeHook, r) ==
    LET u == [NoUpdate EXCEPT !.lastLock = lastLock, !.newContents = newContents]
    IN  IF writeHook THEN [u EXCEPT !.pc = "done", !.panic = TRUE]
        ELSE IF r.err # "nil" THEN UpdateReturns(u, NoContents, r.err)
        ELSE IF r.contents.lock = lastLock
             THEN [u EXCEPT !.pc = "put", !.ver = r.ver, !.contents = r.contents]
        ELSE UpdateReturns([u EXCEPT !.ver = r.ver, !.contents = r.contents],
                           r.contents, "nil")

\* Update from the return of CheckAndPut.
UpdateAfterPut(u, err) ==
    IF err # "nil"
    THEN IF ~IsCheckAndPutError(err)
         THEN UpdateReturns(u, NoContents, err)
         ELSE UpdateReturns(u, u.contents, "nil")
    ELSE UpdateReturns([u EXCEPT !.wrote = TRUE], u.newContents, "nil")

\* bsm.Update(ctx, lastLock, newContents, stats, writeHook), by writer w:
\* from the call to the return, or to the call of CheckAndPut.
UpdateRead(w, lastLock, newContents, writeHook, ioFails) ==
    /\ updates[w].pc = "idle"
    /\ \E r \in {manifestVersionAndContents(blob, ioFails)} :
           updates' = [updates EXCEPT
                          ![w] = UpdateAfterRead(lastLock, newContents, writeHook, r)]
    /\ UNCHANGED <<blob, parsed>>
    /\ UNCHANGED <<store, last, statement, sqle>>
    /\ UNCHANGED threads
    /\ UNCHANGED codec

\* An Update that puts the new manifest whatever the version of the blob.
UpdatePut(w, ioFails) ==
    /\ updates[w].pc = "put"
    /\ \E r \in {CheckAndPutAnyVersion(blob, updates[w].ver,
                                        writeManifest(updates[w].newContents), ioFails)} :
           /\ r.bs.ver <= MaxVersion
           /\ blob' = r.bs
           /\ updates' = [updates EXCEPT ![w] = UpdateAfterPut(@, r.err)]
    /\ UNCHANGED parsed
    /\ UNCHANGED <<store, last, statement, sqle>>
    /\ UNCHANGED threads
    /\ UNCHANGED codec

\* The CheckAndPut of the Update of writer w, and the return of the call.
UpdateCheckAndPut(w, ioFails) ==
    /\ updates[w].pc = "put"
    /\ \E r \in {CheckAndPut(blob, updates[w].ver,
                              writeManifest(updates[w].newContents), ioFails)} :
           /\ r.bs.ver <= MaxVersion
           /\ blob' = r.bs
           /\ updates' = [updates EXCEPT ![w] = UpdateAfterPut(@, r.err)]
    /\ UNCHANGED parsed
    /\ UNCHANGED <<store, last, statement, sqle>>
    /\ UNCHANGED threads
    /\ UNCHANGED codec

\* What the writers of the blobstore other than Update put under the key:
\* a manifest, or a blob that is not one.
UpdateBlobs == {writeManifest(c) : c \in Contents} \cup { <<StorageVersion>> }

NextUpdate ==
    \/ \E w \in Writers, lastLock \in Locks, newContents \in Contents,
          writeHook \in BOOLEAN, ioFails \in BOOLEAN :
           UpdateRead(w, lastLock, newContents, writeHook, ioFails)
    \/ \E w \in Writers, ioFails \in BOOLEAN : UpdateCheckAndPut(w, ioFails)
    \/ \E data \in UpdateBlobs : PutBlob(data)

SpecUpdate == Init /\ [][NextUpdate]_vars

-----------------------------------------------------------------------------
(* The table function dolt_log: LogTableFunction.                          *)

\* The number of times WithExpressions is called on one instance.
MaxCalls == 2

\* sql.Expression: a text literal, a literal that is not text, and a
\* reference to a column, which is not resolved.
Literal(text) == [isNil |-> FALSE, text |-> text, isText |-> TRUE, resolved |-> TRUE]
IntLiteral == [isNil |-> FALSE, text |-> <<"1">>, isText |-> FALSE, resolved |-> TRUE]
ColumnRef == [isNil |-> FALSE, text |-> <<"c">>, isText |-> TRUE, resolved |-> FALSE]

\* expr.String(): a text literal is written between quotes.
ExprString(expr) ==
    IF expr.isText /\ expr.resolved THEN <<"'">> \o expr.text \o <<"'">> ELSE expr.text

\* strings.Contains
Contains(s, substr) ==
    \E i \in 0..(Len(s) - Len(substr)) : SubSeq(s, i + 1, i + Len(substr)) = substr

\* The names of the options of dolt log, and how an option is written.
Dashes == <<"-", "-">>
NotFlag == <<"n", "o", "t">>
ParentsFlag == <<"p", "a", "r", "e", "n", "t", "s">>
MergesFlag == <<"m", "e", "r", "g", "e", "s">>
DecorateFlag == <<"d", "e", "c", "o", "r", "a", "t", "e">>

\* The options found in no arguments.
NoOptions ==
    [err |-> FALSE, hasNot |-> FALSE, notValue |-> <<>>, parents |-> FALSE,
     merges |-> FALSE, hasDecorate |-> FALSE, decorate |-> <<>>]

\* cli.CreateLogArgParser().Parse(args): --parents and --merges are flags,
\* --not and --decorate take the next argument as their value, any other
\* argument that begins with dashes is an error, the rest are positional.
RECURSIVE Parse(_)
Parse(args) ==
    IF args = <<>> THEN NoOptions
    ELSE LET a == Head(args)
         IN  IF ~(Len(a) >= 2 /\ SubSeq(a, 1, 2) = Dashes) THEN Parse(Tail(args))
             ELSE IF a = Dashes \o ParentsFlag
                  THEN [Parse(Tail(args)) EXCEPT !.parents = TRUE]
             ELSE IF a = Dashes \o MergesFlag
                  THEN [Parse(Tail(args)) EXCEPT !.merges = TRUE]
             ELSE IF a = Dashes \o NotFlag /\ Len(args) >= 2
                  THEN [Parse(SubSeq(args, 3, Len(args))) EXCEPT
                           !.hasNot = TRUE, !.notValue = args[2]]
             ELSE IF a = Dashes \o DecorateFlag /\ Len(args) >= 2
                  THEN [Parse(SubSeq(args, 3, Len(args))) EXCEPT
                           !.hasDecorate = TRUE, !.decorate = args[2]]
             ELSE [NoOptions EXCEPT !.err = TRUE]

\* What a step of WithExpressions ends in: the function as it is then, and
\* the error, if any.
LogOutcome(f, result, err, reason) ==
    [ltf |-> f, result |-> result, err |-> err, reason |-> reason]

\* getDoltArgs: the text of each expression, or an error when one of them
\* is not text.
getDoltArgs(expressions) ==
    IF \E i \in 1..Len(expressions) : ~expressions[i].isText
    THEN [args |-> <<>>, err |-> "ErrInvalidArgumentDetails"]
    ELSE [args |-> [i \in 1..Len(expressions) |-> expressions[i].text] \o <<>>, err |-> "nil"]

\* The values --decorate accepts.
DecorateOptions ==
    { <<"s", "h", "o", "r", "t">>, <<"f", "u", "l", "l">>, <<"a", "u", "t", "o">>, <<"n", "o">> }

\* ltf.addOptions(expression)
addOptions(f, expression) ==
    LET got == getDoltArgs(expression)
        apr == Parse(got.args)
        decorateOption == IF apr.hasDecorate THEN apr.decorate ELSE <<"a", "u", "t", "o">>
        g == [f EXCEPT !.notRevision = IF apr.hasNot THEN apr.notValue ELSE @,
                       !.minParents = IF apr.merges THEN 2 ELSE 0,
                       !.showParents = apr.parents]
    IN  IF got.err # "nil" THEN LogOutcome(f, "error", got.err, "not text")
        ELSE IF apr.err THEN LogOutcome(f, "error", "ErrInvalidArgumentDetails", "parse")
        ELSE IF decorateOption \notin DecorateOptions
             THEN LogOutcome(g, "error", "ErrInvalidArgumentDetails", "invalid --decorate option")
        ELSE LogOutcome([g EXCEPT !.decoration = decorateOption], "node", "nil", "none")

\* ltf.invalidArgDetailsErr(expr, reason): expr.String() of a nil
\* expression is a nil dereference.
invalidArgDetailsErr(f, expr, reason) ==
    IF expr.isNil THEN LogOutcome(f, "panic", "nil", "nil pointer dereference")
    ELSE LogOutcome(f, "error", "ErrInvalidArgumentDetails", reason)

\* ltf.validateRevisionExpressions()
validateRevisionExpressions(f) ==
    LET first == f.revisionExpr
        second == f.secondRevisionExpr
        caret == <<"^">>
        dots == <<".", ".">>
        has(expr, substr) == Contains(ExprString(expr), substr)
        details(reason) == LogOutcome(f, "error", "ErrInvalidArgumentDetails", reason)
    IN  IF ~first.isNil /\ ~first.isText THEN details("not text")
        ELSE IF ~first.isNil /\ second.isNil /\ has(first, caret)
             THEN invalidArgDetailsErr(f, first,
                      "second revision must exist if first revision contains '^'")
        ELSE IF ~first.isNil /\ has(first, dots) /\ has(first, caret)
             THEN invalidArgDetailsErr(f, first, "revision cannot contain both '..' and '^'")
        ELSE IF ~second.isNil /\ ~second.isText THEN details("not text")
        ELSE IF ~second.isNil /\ has(second, dots)
             THEN invalidArgDetailsErr(f, second, "second revision cannot contain '..'")
        ELSE IF ~second.isNil /\ first.isNil
             THEN LogOutcome(f, "panic", "nil", "nil pointer dereference")
        ELSE IF ~second.isNil /\ has(first, dots)
             THEN invalidArgDetailsErr(f, first,
                      "revision cannot contain '..' if second revision exists")
        ELSE IF ~first.isNil /\ ~second.isNil /\ has(first, caret) /\ has(second, caret)
             THEN invalidArgDetailsErr(f, first, "both revisions cannot contain '^'")
        ELSE IF ~first.isNil /\ ~second.isNil /\ ~has(first, caret) /\ ~has(second, caret)
             THEN invalidArgDetailsErr(f, first,
                      "one revision must contain '^' if two revisions provided")
        ELSE IF Len(f.notRevision) = 0 THEN LogOutcome(f, "node", "nil", "none")
        ELSE IF first.isNil /\ second.isNil
             THEN invalidArgDetailsErr(f, first, "must have revision in order to use --not")
        ELSE IF ~first.isNil /\ (has(first, dots) \/ has(first, caret))
             THEN invalidArgDetailsErr(f, first,
                      "cannot use --not if '..' or '^' present in revision")
        ELSE IF ~second.isNil /\ has(second, caret)
             THEN invalidArgDetailsErr(f, second,
                      "cannot use --not if '^' present in second revision")
        ELSE IF Contains(f.notRevision, dots)
             THEN details("--not revision cannot contain '..'")
        ELSE IF Contains(f.notRevision, caret)
             THEN details("--not revision cannot contain '^'")
        ELSE LogOutcome(f, "node", "nil", "none")

\* The revisions among the expressions: those that are not written with
\* dashes and do not follow an expression that is.
RECURSIVE filteredExpressions(_, _)
filteredExpressions(expression, i) ==
    IF i > Len(expression) THEN <<>>
    ELSE IF /\ ~Contains(ExprString(expression[i]), Dashes)
            /\ ~(i > 1 /\ Contains(ExprString(expression[i - 1]), Dashes))
         THEN <<expression[i]>> \o filteredExpressions(expression, i + 1)
    ELSE filteredExpressions(expression, i + 1)

\* ltf.WithExpressions(expression...)
WithExpressionsOutcome(f, expression) ==
    LET opts == addOptions(f, expression)
        filtered == filteredExpressions(expression, 1)
        exLen == Len(filtered)
        g == [opts.ltf EXCEPT
                 !.revisionExpr = IF exLen > 0 THEN filtered[1] ELSE @,
                 !.secondRevisionExpr = IF exLen = 2 THEN filtered[2] ELSE @]
    IN  IF \E i \in 1..Len(expression) : ~expression[i].resolved
        THEN LogOutcome(f, "error", "ErrInvalidNonLiteralArgument", "not resolved")
        ELSE IF opts.err # "nil" THEN opts
        ELSE IF exLen > 2
             THEN LogOutcome(opts.ltf, "error", "ErrInvalidArgumentNumber", "0 to 2")
        ELSE validateRevisionExpressions(g)

\* The call ends in outcome r.
LogStep(op, expression, r) ==
    /\ ltf' = r.ltf
    /\ logCall' = [op |-> op, expression |-> expression, calls |-> logCall.calls + 1,
                   result |-> r.result, err |-> r.err, reason |-> r.reason]
    /\ UNCHANGED <<store, last, statement, nbs>>
    /\ UNCHANGED threads
    /\ UNCHANGED codec

\* ltf.NewInstance(ctx, db, expressions): a new function is given the
\* expressions.
NewInstance(expressions) ==
    /\ logCall.calls = 0
    /\ \E r \in {WithExpressionsOutcome(NewLogTableFunction, expressions)} :
           LogStep("NewInstance", expressions, r)

\* WithExpressions called again on the node that the last call returned.
WithExpressions(expression) ==
    /\ logCall.result = "node"
    /\ logCall.calls <= MaxCalls
    /\ \E r \in {WithExpressionsOutcome(ltf, expression)} :
           LogStep("WithExpressions", expression, r)

\* The expressions dolt_log is called with: revisions, options, the value
\* of an option, a number and a column.
LogExpressions ==
    { Literal(<<"m">>), Literal(<<"^", "d">>), Literal(<<"a", ".", ".", "b">>),
      Literal(<<"n", "o">>), Literal(Dashes \o NotFlag), Literal(Dashes \o ParentsFlag),
      Literal(Dashes \o DecorateFlag), IntLiteral, ColumnRef }
MaxArgs == 3
LogArguments ==
    UNION { [1..n -> LogExpressions] : n \in 0..MaxArgs }
        \cup { <<Literal(Dashes \o NotFlag), Literal(<<"m">>), r1, r2>> :
                   r1 \in LogExpressions, r2 \in LogExpressions }
MoreArguments ==
    UNION { [1..n -> { Literal(<<"m">>), Literal(<<"^", "d">>), Literal(Dashes \o NotFlag),
                       Literal(Dashes \o ParentsFlag) }] : n \in 0..2 }

NextLog ==
    \/ \E expressions \in LogArguments : NewInstance(expressions)
    \/ \E expression \in MoreArguments : WithExpressions(expression)

SpecLog == Init /\ [][NextLog]_vars

-----------------------------------------------------------------------------
(* Deserialize given messages that hold a string longer than an uint16.    *)

\* The message of one row, one string of which is 65,536 bytes long.
OversizedMessages ==
    { [JournalledMessage EXCEPT
          !.Values = <<[@[1] EXCEPT ![column] = CreateString(OverlongExpression)]>>] :
      column \in {"Branch", "User", "Host"} }

\* dst.Deserialize of a message that comes from elsewhere.
DeserializeGiven(msg) ==
    /\ \E r \in {AccessDeserialize(dst, msg)} :
           /\ dst' = r.tbl
           /\ derr' = r.err
    /\ UNCHANGED <<store, last, binlog, fb>>
    /\ UNCHANGED threads
    /\ UNCHANGED <<statement, nbs, sqle>>

NextOversized ==
    \/ \E row \in CodecRows : Insert(NoSession, row)
    \/ \E row \in CodecRows : Delete(NoSession, row)
    \/ \E msg \in ExternalMessages \cup OversizedMessages : DeserializeGiven(msg)
    \/ FreshAccess

SpecOversized == Init /\ [][NextOversized]_vars

-----------------------------------------------------------------------------
(* What the properties below are stated with.                              *)

ExprMatches(e, str, collation) == MatchSingle(e.SortOrders, SortOrdersOf(str, collation))

\* The rows of the store, by position, all three of whose expressions match.
MatchingRows(branch, user, host) ==
    {i \in 1..Len(Values) :
        /\ ExprMatches(Users[i], user, Collation_utf8mb4_0900_bin)
        /\ ExprMatches(Hosts[i], host, Collation_utf8mb4_0900_ai_ci)
        /\ ExprMatches(Branches[i], branch, Collation_utf8mb4_0900_ai_ci)}

RECURSIVE OrOfRows(_)
OrOfRows(rows) ==
    IF rows = {} THEN 0
    ELSE LET i == CHOOSE j \in rows : TRUE
         IN  BitOr(Values[i].Permissions, OrOfRows(rows \ {i}))

IsSuper(user, host) == user = SuperUser /\ host = SuperHost

\* Whether a folded expression, as a pattern, matches a concrete name.
Covers(expr, name, collation) ==
    MatchSingle(ParseExpression(expr, collation), SortOrdersOf(name, collation))

\* The session holds admin on a branch name in the store as it is.
SessionHoldsAdmin(ctx, branch) ==
    LET m == AccessMatch(Tbl, branch, ctx.user, ctx.host)
    IN  ~m.panic /\ HasAdmin(m.perms)

\* Match returns for the session on a branch name, without the admin bit.
SessionLacksAdmin(ctx, branch) ==
    LET m == AccessMatch(Tbl, branch, ctx.user, ctx.host)
    IN  ~m.panic /\ ~HasAdmin(m.perms)

\* The session passes self-authorization on a folded branch expression.
Passes(ctx, branch) == ~ctx.present \/ SessionHoldsAdmin(ctx, branch)

Present(f) == GetIndex(Tbl, f.Branch, f.User, f.Host) # -1

SameTriple(f, g) == f.Branch = g.Branch /\ f.User = g.User /\ f.Host = g.Host

-----------------------------------------------------------------------------
(* C1. For every query that is not the superuser's, Access.Match returns   *)
(* matched exactly when some row has all three of its expressions match,   *)
(* and the permissions are the bitwise OR of the permissions of exactly    *)
(* those rows ((false, 0) when there is none).                             *)
C1_MatchIsOrOfMatchingRows ==
    \A branch \in QueryBranches, user \in QueryUsers, host \in QueryHosts :
        ~IsSuper(user, host) =>
            AccessMatch(Tbl, branch, user, host)
                = Returned(MatchingRows(branch, user, host) # {},
                           OrOfRows(MatchingRows(branch, user, host)))

(* C2. Access.Match returns (true, admin) for the superuser on every       *)
(* branch whatever the store holds, the empty store included, and without  *)
(* reading a row: also in a store where reading the rows fails.            *)
C2_SuperUserShortCircuit ==
    \A branch \in QueryBranches \cup {FoldRow(Row(t, 0)).Branch : t \in RawTriples} :
        AccessMatch(Tbl, branch, SuperUser, SuperHost) = Returned(TRUE, Permissions_Admin)

\* A store whose rows cannot be read for another user, and the superuser
\* is matched on it.
C2_Witness ==
    /\ Len(Values) > 0
    /\ \E branch \in QueryBranches, user \in QueryUsers, host \in QueryHosts :
           AccessMatch(Tbl, branch, user, host).panic
    /\ AccessMatch(Tbl, <<"m">>, SuperUser, SuperHost) = Returned(TRUE, Permissions_Admin)

ci == Collation_utf8mb4_0900_ai_ci

\* The branch expressions of the rules a successful operation creates,
\* changes or removes.
AffectedPatterns(op, old, new) ==
    (IF op \in {"Insert", "Update"} THEN {FoldRow(new).Branch} ELSE {})
        \cup (IF op \in {"Update", "Delete"} /\ Present(FoldRow(old))
              THEN {FoldRow(old).Branch} ELSE {})

(* C4. Whenever an Insert, Update or Delete made with a session succeeds   *)
(* on a rule whose branch expression is P, the session holds admin, per    *)
(* Match on the store before the operation, on every branch name that P    *)
(* matches.                                                                *)
C4_SelfAuthorizationCoversPattern ==
    [][(last'.op \in {"Insert", "Update", "Delete"} /\ last'.ctx.present /\ last'.err = "nil") =>
            \A P \in AffectedPatterns(last'.op, last'.old, last'.new) :
                \A branch \in QueryBranches :
                    Covers(P, branch, ci) => SessionHoldsAdmin(last'.ctx, branch)]_vars

\* Update finds the new triple, which is not the old one, already present.
UpdateToPresent(old, new) ==
    ~SameTriple(FoldRow(old), FoldRow(new)) /\ Present(FoldRow(new))

RemovesExactly(k) ==
    /\ Len(Values') = Len(Values) - 1
    /\ Len(Branches') = Len(Branches) - 1
    /\ Len(Users') = Len(Users) - 1
    /\ Len(Hosts') = Len(Hosts) - 1
    /\ \A j \in 1..Len(Values') : ~SameTriple(Values'[j], Values[k])
    /\ \A i \in (1..Len(Values)) \ {k} :
           \E j \in 1..Len(Values') :
               /\ Values'[j] = Values[i]
               /\ Branches'[j].SortOrders = Branches[i].SortOrders
               /\ Users'[j].SortOrders = Users[i].SortOrders
               /\ Hosts'[j].SortOrders = Hosts[i].SortOrders

MatchGivesAdmin(new) ==
    LET n == FoldRow(new)
        m == AccessMatch(Tbl, n.Branch, n.User, n.Host)
    IN  ~m.panic /\ HasAdmin(m.perms)

\* The operation passes the self-authorization that precedes the
\* subsumption check.
PassesAuthorization(op, ctx, old, new) ==
    /\ Passes(ctx, FoldRow(new).Branch)
    /\ op = "Update" => Passes(ctx, FoldRow(old).Branch)

RejectedAsSubsumed(op, ctx, old, new, err) ==
    /\ op \in {"Insert", "Update"}
    /\ err = "UniqueKeyErr"
    /\ op = "Update" => ~UpdateToPresent(old, new)
    /\ PassesAuthorization(op, ctx, old, new)
    /\ MatchGivesAdmin(new)

\* The patterns of the folded row match the concrete triple.
RowCovers(f, branch, user, host) ==
    /\ Covers(f.Branch, branch, ci)
    /\ Covers(f.User, user, Collation_utf8mb4_0900_bin)
    /\ Covers(f.Host, host, ci)

(* C8. Whenever an Insert or Update is rejected by the subsumption check,  *)
(* the store holds a row with admin whose three patterns match every       *)
(* concrete triple that the patterns of the rejected row match.            *)
C8_SubsumptionRejectionIsSound ==
    [][RejectedAsSubsumed(last'.op, last'.ctx, last'.old, last'.new, last'.err) =>
            \E i \in 1..Len(Values) :
                /\ HasAdmin(Values[i].Permissions)
                /\ \A branch \in QueryBranches, user \in QueryUsers, host \in QueryHosts :
                       RowCovers(FoldRow(last'.new), branch, user, host) =>
                           i \in MatchingRows(branch, user, host)]_vars

(* C9. An Insert whose folded triple is that of an existing row, made      *)
(* without a session or by a session that holds admin on the branch,       *)
(* returns the unique-key error and leaves the store unchanged, whatever   *)
(* the permissions of the existing row; an Update to another triple that   *)
(* is already present returns the unique-key error and leaves the store    *)
(* unchanged.                                                              *)
C9_DuplicateTripleIsUniqueKeyError ==
    [][/\ (/\ last'.op = "Insert"
           /\ Present(FoldRow(last'.new))
           /\ ~(last'.ctx.present /\ SessionLacksAdmin(last'.ctx, FoldRow(last'.new).Branch))) =>
              last'.err = "UniqueKeyErr" /\ UNCHANGED store
       /\ (last'.op = "Update" /\ UpdateToPresent(last'.old, last'.new)) =>
              last'.err = "UniqueKeyErr" /\ UNCHANGED store]_vars

(* C10. I1: after every Insert, Update or Delete, successful or not, the   *)
(* four arrays have the same length.                                       *)
C10_ParallelArraysSameLength ==
    /\ Len(Branches) = Len(Values)
    /\ Len(Users) = Len(Values)
    /\ Len(Hosts) = Len(Values)

\* A row has been deleted from a store of several rows, the last row
\* moving into its place.
C10_Witness ==
    /\ last.op = "Delete"
    /\ last.err = "nil"
    /\ ~Present(FoldRow(last.old))
    /\ Len(Values) > 0
    /\ \E i \in 1..Len(Values) : Users[i].CollectionIndex = Len(Values)

(* C11. I2: after every Insert, Update or Delete, for every position i     *)
(* the CollectionIndex of Branches[i], Users[i] and Hosts[i] is i (the Go  *)
(* index, the sequence position less one), also for the row that a Delete *)
(* has moved into position i.                                              *)
C11_CollectionIndexIsPosition ==
    /\ \A i \in 1..Len(Branches) : Branches[i].CollectionIndex = i - 1
    /\ \A i \in 1..Len(Users) : Users[i].CollectionIndex = i - 1
    /\ \A i \in 1..Len(Hosts) : Hosts[i].CollectionIndex = i - 1

(* C12. In every store reached by Insert, Update and Delete, Match         *)
(* returns for every query: no collection index that a matcher pass        *)
(* produces is out of the range of Hosts, Branches or Values.              *)
C12_MatchNeverIndexesOutOfRange ==
    \A branch \in QueryBranches, user \in QueryUsers, host \in QueryHosts :
        ~AccessMatch(Tbl, branch, user, host).panic

\* No two positions of the values hold the same triple.
UniqueTriples(values) ==
    \A i, j \in 1..Len(values) : SameTriple(values[i], values[j]) => i = j

(* C13. I3: in every store reached by Insert, Update and Delete no two     *)
(* rows of Values have the same folded triple (Branch, User, Host).        *)
C13_NoTwoRowsShareATriple == UniqueTriples(Values)

\* An Insert of a triple that a row without admin already holds has been
\* refused with the unique-key error, in a store of several rows.
C13_Witness ==
    /\ last.op = "Insert"
    /\ last.err = "UniqueKeyErr"
    /\ Present(FoldRow(last.new))
    /\ ~MatchGivesAdmin(last.new)
    /\ Len(Values) > 1

\* Rules of which one covers the other: every branch for user a from any
\* host, and the branch m for user a from any host.
NestedTriples ==
    { <<<<"%">>, <<"a">>, <<"%">>>>,
      <<<<"M">>, <<"a">>, <<"%">>>> }

NestedRows == {Row(t, p) : t \in NestedTriples, p \in {Permissions_Admin, Permissions_Write}}

\* The editor called with the nested rules.
NextNested ==
    \/ \E ctx \in Sessions, row \in NestedRows : Insert(ctx, row)
    \/ \E ctx \in Sessions, old \in NestedRows, new \in NestedRows : Update(ctx, old, new)
    \/ \E ctx \in Sessions, row \in NestedRows : Delete(ctx, row)

SpecNested == Init /\ [][NextNested]_vars

\* The row at position j matches every concrete triple that the row at
\* position i matches.
RowSubsumes(j, i) ==
    \A branch \in QueryBranches, user \in QueryUsers, host \in QueryHosts :
        i \in MatchingRows(branch, user, host) => j \in MatchingRows(branch, user, host)

(* C14. I4: in every store reached by successful Insert, Update and        *)
(* Delete operations there are no two distinct rows r and r' such that     *)
(* the patterns of r' match every concrete triple that the patterns of r   *)
(* match, in whichever order the two were inserted.                        *)
C14_NoRowIsSubsumed ==
    \A i, j \in 1..Len(Values) : i # j => ~RowSubsumes(j, i)

\* The values hold a row with the triple of f.
HasTriple(values, f) == \E i \in 1..Len(values) : SameTriple(values[i], f)

\* The step replaces the row of the old triple by the new row and keeps
\* the triple and permissions of every other row.
ReplacesRow(o, n) ==
    /\ \E j \in 1..Len(Values') :
           SameTriple(Values'[j], n) /\ Values'[j].Permissions = n.Permissions
    /\ \A i \in 1..Len(Values) :
           ~SameTriple(Values[i], o) => \E j \in 1..Len(Values') : Values'[j] = Values[i]
    /\ \A j \in 1..Len(Values') :
           ~SameTriple(Values'[j], n) => \E i \in 1..Len(Values) : Values[i] = Values'[j]
    /\ Len(Values') = Len(Values)

(* C15, as stated. Whenever Update returns an error the four arrays are    *)
(* unchanged; whenever it succeeds on an old row that is present, the old  *)
(* triple is no longer in the store, the new triple is present with the    *)
(* new permissions, and every other row keeps its triple and permissions.  *)
C15_UpdateAllOrNothing ==
    [][last'.op = "Update" =>
            LET o == FoldRow(last'.old)
                n == FoldRow(last'.new)
            IN  /\ last'.err # "nil" => UNCHANGED store
                /\ (last'.err = "nil" /\ Present(o)) =>
                       /\ ~HasTriple(Values', o)
                       /\ ReplacesRow(o, n)]_vars

(* C15, amended. As C15, the old triple being no longer in the store       *)
(* unless it is also the new triple.                                       *)
C15_UpdateAllOrNothingUnlessSameTriple ==
    [][last'.op = "Update" =>
            LET o == FoldRow(last'.old)
                n == FoldRow(last'.new)
            IN  /\ last'.err # "nil" => UNCHANGED store
                /\ (last'.err = "nil" /\ Present(o)) =>
                       /\ ~SameTriple(o, n) => ~HasTriple(Values', o)
                       /\ ReplacesRow(o, n)]_vars

\* An Update has replaced the first of two rows by a row of another
\* triple: the row that was last has moved to the front and the new row
\* has been appended after it.
C15_Witness ==
    /\ last.op = "Update"
    /\ last.err = "nil"
    /\ ~SameTriple(FoldRow(last.old), FoldRow(last.new))
    /\ ~Present(FoldRow(last.old))
    /\ Len(Values) = 2
    /\ SameTriple(Values[2], FoldRow(last.new))
    /\ Branches[1].CollectionIndex = 1

\* The errors of self-authorization.
AuthorizationErrors == {"ErrInsertingRow", "ErrUpdatingRow", "ErrUpdatingToRow", "ErrDeletingRow"}

(* C16. Without a session, Insert, Update and Delete never return          *)
(* ErrInsertingRow, ErrUpdatingRow, ErrUpdatingToRow or ErrDeletingRow,    *)
(* and the other checks still apply: a row too long is refused with        *)
(* ErrExpressionsTooLong, a new triple for which Match returns admin and   *)
(* an Update to another triple that is present are refused with the        *)
(* unique-key error, and an Insert of a triple that is present does not    *)
(* succeed. A Delete returns no error.                                     *)
C16_NilSessionSkipsAuthorization ==
    [][(last'.op \in {"Insert", "Update", "Delete"} /\ ~last'.ctx.present) =>
            LET n == FoldRow(last'.new)
            IN  /\ last'.err \notin AuthorizationErrors
                /\ (last'.op # "Delete" /\ TooLong(n)) =>
                       last'.err = "ErrExpressionsTooLong" /\ UNCHANGED store
                /\ (last'.op # "Delete" /\ ~TooLong(n) /\ MatchGivesAdmin(last'.new)) =>
                       last'.err = "UniqueKeyErr" /\ UNCHANGED store
                /\ (last'.op = "Update" /\ ~TooLong(n) /\ UpdateToPresent(last'.old, last'.new)) =>
                       last'.err = "UniqueKeyErr" /\ UNCHANGED store
                /\ (last'.op = "Insert" /\ Present(n)) =>
                       last'.err # "nil" /\ UNCHANGED store
                /\ last'.op = "Delete" => last'.err = "nil"]_vars

\* Without a session a row has been inserted into the empty store, on
\* which no session holds admin.
C16_Witness ==
    /\ last.op = "Insert"
    /\ ~last.ctx.present
    /\ last.err = "nil"
    /\ Len(Values) = 1
    /\ Present(FoldRow(last.new))

(* C17. Under every interleaving of the editor with the readers that hold  *)
(* the lock, what a reader has read is the store as a completed operation  *)
(* left it: the four arrays Serialize has read have the same length and    *)
(* hold the same rows, and neither reader has read a store between two     *)
(* statements of Insert, Delete or Update.                                 *)
C17_ReadersSeeWholeOperations ==
    /\ pc["Serialize"] = "read" =>
           /\ seen["Serialize"] = committed
           /\ Len(seen["Serialize"].Branches) = Len(seen["Serialize"].Values)
           /\ Len(seen["Serialize"].Users) = Len(seen["Serialize"].Values)
           /\ Len(seen["Serialize"].Hosts) = Len(seen["Serialize"].Values)
    /\ pc["PartitionRows"] = "read" => seen["PartitionRows"].Values = committed.Values
    /\ \A r \in Readers : pc[r] # "idle" => pc[Editor] = "idle" /\ Tbl = committed

\* Serialize has read the four arrays of a store of two rows that an
\* Update left.
C17_Witness ==
    /\ pc["Serialize"] = "read"
    /\ Len(seen["Serialize"].Values) = 2
    /\ last.op = "Update"
    /\ last.err = "nil"

DeserializeReturns == derr' # "none" /\ (derr' # derr \/ dst' # dst)

\* The four vectors of the message have one length.
SameFieldLengths(msg) ==
    /\ Len(msg.Branches) = Len(msg.Users)
    /\ Len(msg.Users) = Len(msg.Hosts)
    /\ Len(msg.Hosts) = Len(msg.Values)

(* C19. Round trip: deserializing the serialized form of a store reached   *)
(* by edits into a store that newAccess has just made returns no error     *)
(* and yields the same Branches, Users, Hosts and Values in the same       *)
(* order; GetIndex gives the same position for every triple and Match the  *)
(* same result for every query.                                            *)
C19_RoundTrip ==
    [][(DeserializeReturns /\ dst = NewAccess /\ fb = AccessSerialize(Tbl, binlog)) =>
            /\ derr' = "nil"
            /\ dst'.Branches = Branches
            /\ dst'.Users = Users
            /\ dst'.Hosts = Hosts
            /\ dst'.Values = Values
            /\ \A row \in OldRows :
                   LET f == FoldRow(row)
                   IN  GetIndex(dst', f.Branch, f.User, f.Host)
                           = GetIndex(Tbl, f.Branch, f.User, f.Host)
            /\ \A branch \in QueryBranches, user \in QueryUsers, host \in QueryHosts :
                   AccessMatch(dst', branch, user, host) = AccessMatch(Tbl, branch, user, host)]_vars

\* A store of two rows, the first of which a Delete has moved, has been
\* serialized and read back.
C19_Witness ==
    /\ derr = "nil"
    /\ fb = AccessSerialize(Tbl, binlog)
    /\ Len(Values) = 2
    /\ Branches[1].CollectionIndex = 1
    /\ dst.Values = Values
    /\ dst.Hosts = Hosts

(* C20. Deserialize returns an error and leaves the four arrays and the    *)
(* journal of the destination unchanged when the destination has rows or   *)
(* when the four vectors of the message differ in length; whenever it      *)
(* returns an error the destination is unchanged.                          *)
C20_DeserializeErrorLeavesDestination ==
    [][DeserializeReturns =>
            /\ (Len(dst.Values) # 0 \/ ~SameFieldLengths(fb)) =>
                   derr' # "nil" /\ dst' = dst
            /\ derr' # "nil" => dst' = dst]_vars

\* Deserialize has been refused on a destination that holds rows and a
\* journal entry.
C20_Witness ==
    /\ derr = "non-empty access table"
    /\ Len(dst.Values) > 0
    /\ dst.binlog # <<>>

\* Every expression of the folded row fits within an uint16.
FitsUint16(f) ==
    Len(f.Branch) <= MaxUint16 /\ Len(f.User) <= MaxUint16 /\ Len(f.Host) <= MaxUint16

\* Some expression of the folded row is 65,536 bytes long or longer.
Oversized(f) ==
    Len(f.Branch) >= MaxUint16 + 1 \/ Len(f.User) >= MaxUint16 + 1 \/ Len(f.Host) >= MaxUint16 + 1

(* C24. Insert and Update do not refuse for its length a row whose folded   *)
(* branch, user and host are each at most 65,535 bytes long; they return   *)
(* ErrExpressionsTooLong and leave the store unchanged when one of the     *)
(* three, of the new row for Update, is 65,536 bytes long or longer; every *)
(* string the store holds after an edit is at most 65,535 bytes long.      *)
C24_LengthLimit ==
    [][last'.op \in {"Insert", "Update"} =>
            /\ \A n \in {FoldRow(last'.new)} :
                   IF Oversized(n)
                   THEN last'.err = "ErrExpressionsTooLong" /\ UNCHANGED store
                   ELSE FitsUint16(n) /\ last'.err # "ErrExpressionsTooLong"
            /\ \A i \in 1..Len(Values') : FitsUint16(Values'[i])]_vars

\* An Update of a stored row to a row with an expression of 65,536 bytes
\* has been refused, and the store still holds the row.
C24_Witness ==
    /\ last.op = "Update"
    /\ last.err = "ErrExpressionsTooLong"
    /\ Oversized(FoldRow(last.new))
    /\ Present(FoldRow(last.old))

(* C28. Insert returns the error of the first check that fails, the checks *)
(* being, in this order: the length limit (ErrExpressionsTooLong, whatever *)
(* the session), the self-authorization (ErrInsertingRow, whether or not   *)
(* the triple is present or matched with admin), the subsumption and the   *)
(* exact duplicate (both the unique-key error); the store is unchanged in  *)
(* each case, and an Insert that passes the four checks succeeds.          *)
C28_InsertCheckOrder ==
    [][last'.op = "Insert" =>
            \A n \in {FoldRow(last'.new)} :
                LET ctx == last'.ctx
                IN  IF Oversized(n)
                    THEN last'.err = "ErrExpressionsTooLong" /\ UNCHANGED store
                    ELSE IF ctx.present /\ SessionLacksAdmin(ctx, n.Branch)
                    THEN last'.err = "ErrInsertingRow" /\ UNCHANGED store
                    ELSE \A m \in {AccessMatch(Tbl, n.Branch, n.User, n.Host)} :
                        IF Passes(ctx, n.Branch) /\ ~m.panic /\ HasAdmin(m.perms)
                        THEN last'.err = "UniqueKeyErr" /\ UNCHANGED store
                        ELSE IF Passes(ctx, n.Branch) /\ ~m.panic /\ Present(n)
                        THEN last'.err = "UniqueKeyErr" /\ UNCHANGED store
                        ELSE (Passes(ctx, n.Branch) /\ ~m.panic) => last'.err = "nil"]_vars

\* A session without admin on the branch has been refused the insertion
\* of a row too long with ErrExpressionsTooLong.
C28_Witness ==
    /\ last.op = "Insert"
    /\ last.ctx.present
    /\ last.err = "ErrExpressionsTooLong"
    /\ SessionLacksAdmin(last.ctx, FoldRow(last.new).Branch)

\* The row the store holds for a triple that is present.
StoredRow(f) == Values[GetIndex(Tbl, f.Branch, f.User, f.Host) + 1]

\* The journal entry of an operation code on a row of the store.
JournalEntry(opcode, value) == [opcode |-> opcode, value |-> value]

(* C22. Every successful Insert appends one INSERT entry, that carries the *)
(* inserted row, to the journal; every successful Delete of a present row  *)
(* appends one DELETE entry; a successful Update of a present row appends  *)
(* DELETE of the old row and then INSERT of the new one; no editor         *)
(* operation alters or removes an entry the journal already holds.         *)
C22_JournalRecordsEdits ==
    [][LET o == FoldRow(last'.old)
           n == FoldRow(last'.new)
       IN  /\ (last'.op = "Insert" /\ last'.err = "nil") =>
                  binlog' = Append(binlog, JournalEntry("INSERT", n))
           /\ (last'.op = "Delete" /\ last'.err = "nil" /\ Present(o)) =>
                  binlog' = Append(binlog, JournalEntry("DELETE", StoredRow(o)))
           /\ (last'.op = "Update" /\ last'.err = "nil" /\ Present(o)) =>
                  binlog' = binlog \o <<JournalEntry("DELETE", StoredRow(o)),
                                        JournalEntry("INSERT", n)>>
           /\ Len(binlog') >= Len(binlog)
           /\ SubSeq(binlog', 1, Len(binlog)) = binlog]_vars

\* The session may edit rules of a branch expression: there is no session,
\* or it is the superuser, or a row with admin matches it on the branch.
Authorized(ctx, branch) ==
    \/ ~ctx.present
    \/ IsSuper(ctx.user, ctx.host)
    \/ HasAdmin(OrOfRows(MatchingRows(branch, ctx.user, ctx.host)))

\* No row with admin matches the triple, and the superuser is not its
\* principal.
NoAdminRowMatches(f) ==
    /\ ~IsSuper(f.User, f.Host)
    /\ ~HasAdmin(OrOfRows(MatchingRows(f.Branch, f.User, f.Host)))

(* C30. Update checks the new triple for subsumption on the store that     *)
(* still holds the old row: an authorized Update that keeps the triple of  *)
(* a present row whose permissions include admin is always rejected with   *)
(* the unique-key error and leaves the store unchanged; the same Update of *)
(* a row with write only, that no row with admin matches, succeeds and     *)
(* the row holds the new permissions.                                      *)
C30_UpdateSeesOldRow ==
    [][last'.op = "Update" =>
            LET o == FoldRow(last'.old)
                n == FoldRow(last'.new)
            IN  (SameTriple(o, n) /\ Present(o) /\ Authorized(last'.ctx, n.Branch)) =>
                    /\ HasAdmin(StoredRow(o).Permissions) =>
                           last'.err = "UniqueKeyErr" /\ UNCHANGED store
                    /\ (~HasAdmin(StoredRow(o).Permissions) /\ NoAdminRowMatches(n)) =>
                           /\ last'.err = "nil"
                           /\ \E i \in 1..Len(Values') : Values'[i] = n]_vars

\* Every bit of the permissions p is a bit of the permissions q.
BitsWithin(p, q) == BitAnd(p, q) = p

\* The store after the step, as Match reads it.
TblAfter == [Branches |-> Branches', Users |-> Users', Hosts |-> Hosts', Values |-> Values']

(* C23. Match is monotone under edits: for every branch and principal for  *)
(* which Match returns before a successful Insert, it returns after it,    *)
(* with every bit it returned before; and the permissions it returns       *)
(* after a successful Delete have no bit that it did not return before.    *)
C23_MatchIsMonotone ==
    [][last'.err = "nil" =>
           \A branch \in QueryBranches, user \in QueryUsers, host \in QueryHosts :
               LET before == AccessMatch(Tbl, branch, user, host)
                   after == AccessMatch(TblAfter, branch, user, host)
               IN  /\ (last'.op = "Insert" /\ ~before.panic) =>
                          ~after.panic /\ BitsWithin(before.perms, after.perms)
                   /\ (last'.op = "Delete" /\ ~before.panic /\ ~after.panic) =>
                          BitsWithin(after.perms, before.perms)]_vars

\* A Delete has removed a row and left one whose CollectionIndex is not
\* its position, in a store where Match returns permissions for a query
\* of the user of that row.
C23_Witness ==
    /\ last.op = "Delete"
    /\ last.err = "nil"
    /\ ~Present(FoldRow(last.old))
    /\ \E i \in 1..Len(Users) :
           /\ Users[i].CollectionIndex # i - 1
           /\ \E branch \in QueryBranches, host \in QueryHosts :
                  LET m == AccessMatch(Tbl, branch, Values[i].User, host)
                  IN  ~m.panic /\ m.perms # 0

\* The row of the superuser that a listing of the table begins with.
SyntheticRow == <<(<<"%">>), SuperUser, SuperHost, Permissions_Admin>>

(* C25. In every reachable state PartitionRows returns the row ('%',       *)
(* SuperUser, SuperHost, admin) first, and after it the stored rows, each  *)
(* once and in the order of Values; the first row is not one of the stored *)
(* rows, whatever Insert, Update and Delete have been called with.         *)
C25_SyntheticRowFirst ==
    LET rows == PartitionRows(Tbl)
    IN  /\ Len(rows) = Len(Values) + 1
        /\ rows[1] = SyntheticRow
        /\ \A i \in 1..Len(Values) :
               /\ rows[i + 1] = <<Values[i].Branch, Values[i].User, Values[i].Host,
                                  Values[i].Permissions>>
               /\ rows[i + 1] # SyntheticRow

\* The superuser has been refused the insertion of the row ('%',
\* SuperUser, SuperHost, admin) into a store that holds a row.
C25_Witness ==
    /\ last.op = "Insert"
    /\ last.ctx = Root
    /\ last.err = "UniqueKeyErr"
    /\ <<FoldRow(last.new).Branch, FoldRow(last.new).User, FoldRow(last.new).Host,
         last.new.permissions>> = SyntheticRow
    /\ Len(Values) > 0

(* C26. Statement rollback undoes the statement: after StatementBegin, row *)
(* operations and DiscardChanges, the store is the store that the          *)
(* statement began in.                                                     *)
C26_RollbackRestoresStore ==
    [][(statement.state = "OPEN" /\ statement'.state = "ROLLED_BACK") =>
           TblAfter = statement.begun]_vars

(* C27. ParseIfExists, called without a read hook, returns false and no    *)
(* error when the blobstore holds no manifest; true, the contents and no   *)
(* error when it holds a manifest that parses; true and the error when the *)
(* read fails otherwise or the blob does not parse. It panics when, and    *)
(* only when, it is given a read hook. It never changes the blobstore.     *)
C27_ParseIfExists ==
    [][parsed' # parsed =>
           LET read == parseManifest(blob.data)
           IN  /\ blob' = blob
               /\ parsed'.panic <=> parsed'.readHook
               /\ ~parsed'.readHook =>
                      /\ (~parsed'.ioFails /\ ~blob.present) =>
                             ~parsed'.exists /\ parsed'.err = "nil"
                      /\ (~parsed'.ioFails /\ blob.present /\ read.err = "nil") =>
                             /\ parsed'.exists
                             /\ parsed'.contents = read.contents
                             /\ parsed'.err = "nil"
                      /\ (parsed'.ioFails \/ (blob.present /\ read.err # "nil")) =>
                             parsed'.exists /\ parsed'.err \notin {"nil", "none"}]_vars

\* ParseIfExists has returned true and an error for a blob that is there
\* and is not a manifest.
C27_Witness ==
    /\ blob.present
    /\ parseManifest(blob.data).err # "nil"
    /\ ~parsed.ioFails
    /\ parsed.exists
    /\ parsed.err = "parse"

\* The call whose events these are has returned.
HasReturned(events) == \A k \in 1..Len(events) : events[k].op # "panic"

\* The positions of the events where the buffer is taken from, or put
\* back into, the pool.
EventsOf(events, op, pool, buf) ==
    {k \in 1..Len(events) : events[k] = [op |-> op, pool |-> pool, buf |-> buf]}

\* The discipline of the pools over the events of one call.
PoolDiscipline(events) ==
    /\ \A k \in 1..Len(events) :
           /\ (events[k].op = "Get" /\ HasReturned(events)) =>
                  Cardinality(EventsOf(events, "Put", events[k].pool, events[k].buf)) = 1
           /\ events[k].op = "Put" =>
                  /\ \E j \in 1..(k - 1) : events[j] = Get(events[k].pool, events[k].buf)
                  /\ \A j \in (k + 1)..Len(events) :
                         events[j] # Read(events[k].pool, events[k].buf)

(* C29. Within one call of Access.Match every buffer taken from indexPool  *)
(* or matchExprPool is put back into its pool exactly once before Match    *)
(* returns, no buffer is read after it has been put back, only buffers     *)
(* that were taken from a pool are put back, and the call for the          *)
(* superuser takes no buffer.                                              *)
C29_ScratchPoolDiscipline ==
    \A branch \in QueryBranches, user \in QueryUsers, host \in QueryHosts :
        LET events == MatchPoolEvents(Tbl, branch, user, host)
        IN  /\ PoolDiscipline(events)
            /\ IsSuper(user, host) => \A k \in 1..Len(events) : events[k].op # "Get"

(* C21. Deserialize fails when a branch, user or host string of the        *)
(* message is longer than 65,535 bytes: no such string is ever loaded into *)
(* the Values of the store that Deserialize fills.                         *)
C21_NoOversizedStringLoaded ==
    \A i \in 1..Len(dst.Values) : FitsUint16(dst.Values[i])

\* The subsumption check lets the new triple through: Match returns for
\* it, without the admin bit.
PassesSubsumption(new) ==
    \E n \in {FoldRow(new)} : Subsumed(Tbl, n.Branch, n.User, n.Host) = "no"

(* C31. An Update whose old triple is not in the store deletes nothing:    *)
(* when the new row passes the length check, its triple is not in the      *)
(* store, the session passes authorization on both branches and the        *)
(* subsumption check lets it through, the Update returns no error and the  *)
(* store is the store before it with the new row appended, one row longer; *)
(* when one of the checks does not pass it returns an error and leaves the *)
(* store unchanged.                                                        *)
C31_UpdateOfAbsentRowInserts ==
    [][(last'.op = "Update" /\ ~Present(FoldRow(last'.old))) =>
            \A n \in {FoldRow(last'.new)} :
                IF /\ ~Oversized(n)
                   /\ ~Present(n)
                   /\ PassesAuthorization("Update", last'.ctx, last'.old, last'.new)
                   /\ PassesSubsumption(last'.new)
                THEN /\ last'.err = "nil"
                     /\ Values' = Append(Values, n)
                     /\ Len(Branches') = Len(Values')
                     /\ Len(Users') = Len(Values')
                     /\ Len(Hosts') = Len(Values')
                     /\ SubSeq(Branches', 1, Len(Branches)) = Branches
                     /\ SubSeq(Users', 1, Len(Users)) = Users
                     /\ SubSeq(Hosts', 1, Len(Hosts)) = Hosts
                ELSE last'.err # "nil" /\ UNCHANGED store]_vars

\* An Update of the triple of the superuser, which the store never holds,
\* to another triple has succeeded on a store of one row, which now has two.
C31_Witness ==
    /\ last.op = "Update"
    /\ last.err = "nil"
    /\ <<FoldRow(last.old).Branch, FoldRow(last.old).User, FoldRow(last.old).Host>>
           = <<(<<"%">>), SuperUser, SuperHost>>
    /\ ~HasTriple(Values, FoldRow(last.old))
    /\ Len(Values) = 2
    /\ Values[2] = FoldRow(last.new)

\* The step is the CheckAndPut of the Update of writer w.
PutStepOf(w) == updates[w].pc = "put" /\ updates'[w].pc = "done"

\* The Updates of p and q, called with the same lastLock, have both read
\* the manifest and neither has returned.
BothInFlight(p, q) ==
    /\ updates[p].pc = "put"
    /\ updates[q].pc = "put"
    /\ updates[p].lastLock = updates[q].lastLock

(* C32. No update of the manifest is lost. A call of Update replaces the   *)
(* stored manifest, by its newContents, only if the blob is at that moment *)
(* of the version the call has read, holds the manifest the call has read, *)
(* and the lock of that manifest is the lastLock of the call; and of two   *)
(* calls with the same lastLock that are in flight at the same time, at    *)
(* most one stores its contents, in every interleaving.                    *)
C32_NoLostUpdate ==
    /\ [][\A w \in Writers :
               /\ updates'[w] # updates[w] =>
                      ((blob' # blob) <=> (PutStepOf(w) /\ updates'[w].wrote))
               /\ (PutStepOf(w) /\ updates'[w].wrote) =>
                      /\ blob.present
                      /\ blob.ver = updates[w].ver
                      /\ parseManifest(blob.data) =
                             [contents |-> updates[w].contents, err |-> "nil"]
                      /\ updates[w].contents.lock = updates[w].lastLock
                      /\ blob'.data = writeManifest(updates[w].newContents)]_vars
    /\ \A p, q \in Writers :
           (p # q) => [](BothInFlight(p, q) => [] ~(updates[p].wrote /\ updates[q].wrote))

\* Two calls with the same lastLock have read the same version of the
\* manifest; the first has stored its contents, and the CheckAndPut of the
\* second was rejected.
C32_Witness ==
    /\ updates["w1"].pc = "done" /\ updates["w2"].pc = "done"
    /\ updates["w1"].lastLock = updates["w2"].lastLock
    /\ updates["w1"].ver = updates["w2"].ver
    /\ updates["w1"].wrote
    /\ updates["w2"].contents.lock = updates["w2"].lastLock
    /\ ~updates["w2"].wrote
    /\ updates["w2"].err = "nil"
    /\ blob.data = writeManifest(updates["w1"].newContents)

\* The call of Update of writer w returns in this step, without a panic.
ReturnOf(w) == updates[w].pc # "done" /\ updates'[w].pc = "done" /\ ~updates'[w].panic

\* The manifest the blobstore holds after the step.
StoredAfter == parseManifest(blob'.data)

(* C33. Update returns newContents when it has written the manifest, and  *)
(* otherwise only if they are the manifest another writer has stored; when *)
(* the lock it has read is not lastLock, and when CheckAndPut is rejected  *)
(* because the manifest was changed in between, the call stores nothing    *)
(* and, returning no error, returns the contents of the manifest that the  *)
(* blobstore holds when it returns, whose lock is not lastLock in the      *)
(* first case.                                                             *)
C33_UpdateReturnsStoredManifest ==
    [][\A w \in Writers :
           ReturnOf(w) =>
               \A u \in {updates'[w]} :
                   /\ u.wrote => u.err = "nil" /\ u.ret = u.newContents
                   /\ (u.err = "nil" /\ u.ret = u.newContents) =>
                          u.wrote \/ StoredAfter.contents = u.newContents
                   /\ (~u.wrote /\ u.err = "nil") =>
                          /\ blob' = blob
                          /\ u.contents.lock # u.lastLock => u.ret.lock # u.lastLock
                          /\ (blob'.present /\ StoredAfter.err = "nil") =>
                                 u.ret = StoredAfter.contents]_vars

\* The call of WithExpressions with these expressions, on the function f,
\* comes to validateRevisionExpressions.
ReachesValidation(f, expression) ==
    /\ \A i \in 1..Len(expression) : expression[i].resolved
    /\ addOptions(f, expression).err = "nil"
    /\ Len(filteredExpressions(expression, 1)) <= 2

(* C34. The validation of the arguments of dolt_log always ends with a     *)
(* node or with an error value; and when it comes to a function that has   *)
(* the option --not and no revision, WithExpressions returns the error     *)
(* ErrInvalidArgumentDetails, 'must have revision in order to use --not'.  *)
C34_NotWithoutRevisionIsAnError ==
    [][logCall' # logCall =>
           /\ logCall'.result \in {"node", "error"}
           /\ \A f \in {IF logCall'.op = "NewInstance" THEN NewLogTableFunction ELSE ltf} :
                  ( /\ ReachesValidation(f, logCall'.expression)
                    /\ Len(ltf'.notRevision) > 0
                    /\ ltf'.revisionExpr.isNil
                    /\ ltf'.secondRevisionExpr.isNil ) =>
                      /\ logCall'.result = "error"
                      /\ logCall'.err = "ErrInvalidArgumentDetails"
                      /\ logCall'.reason = "must have revision in order to use --not"]_vars

=============================================================================
